---------------------------- MODULE Spec2Model ----------------------------
(***************************************************************************)
(* RiskToNIST: control-identifier normalisation, the aggregation of risk   *)
(* records into per-control maxima, and the weighted prioritisation of     *)
(* controls.                                                               *)
(*                                                                         *)
(* Strings are sequences of one-character strings.  Scores are integers in *)
(* tenths (9.0 is 90), weights are integers in thousandths (0.4 is 400),   *)
(* so a total_score is an integer in ten-thousandths (6.8 is 68000).       *)
(***************************************************************************)
EXTENDS Integers, Sequences, FiniteSets, TLC

VARIABLES
    pc,               \* position of the program that the specification runs
    control,          \* parse_attack_mapping: the raw capability_id
    normalized_control, \* parse_attack_mapping: the normalised id
    renormalized,     \* the normalised id, normalised once more
    parsed_risks,     \* main: what parse_all_datasets returned
    all_risks,        \* main: source name -> list of risks, in dict order
    attack_mappings,  \* map_risks_to_controls: technique -> control ids
    controls_order,   \* the keys of the controls dict, in insertion order
    controls,         \* the controls dict: control id -> details
    pos,              \* map_risks_to_controls: index of the next risk
    weights,          \* normalize_and_prioritize: the weights argument
    total_score,      \* control id -> details["total_score"], once assigned
    prioritized,      \* the list normalize_and_prioritize returns (its ids)
    kev_data,         \* calculate_control_risks: the KEV items
    kev_i,            \* calculate_control_risks: index of the next item
    cve_details,      \* calculate_control_risks: cve -> details
    control_to_cves,  \* calculate_control_risks: control -> {(cve, risk_score)}
    control_to_risk,  \* calculate_control_risks: control -> total_risk, cves
    config,           \* main: <<>> until load_config returned, then <<the dict>>
    outputs,          \* write_outputs: the report files written
    log,              \* the messages logged at level ERROR
    exit_status,      \* the exit status of the process, once it has ended
    end_date_reference, \* download_nvd_api: the argument of that name
    total_months,     \* download_nvd_api: the argument, then its clamped value
    max_days,         \* download_nvd_api: the argument, then its clamped value
    default_days,     \* download_nvd_api: the argument, then its clamped value
    today,            \* get_last_saturday: <<>>, then <<its local today>>
    end_date,         \* download_nvd_api: <<>>, then <<end_date>>
    start_date,       \* download_nvd_api: <<>>, then <<start_date>>
    current_date,     \* download_nvd_api: <<>>, then <<current_date>>
    date_ranges,      \* download_nvd_api: the list of (start, end) appended
    all_items,        \* fetch_nvd_data: len(all_items)
    total_results,    \* fetch_nvd_data: total_results
    start_index,      \* fetch_nvd_data: start_index
    attempt,          \* fetch_nvd_data: requests made for the current page
    written,          \* fetch_nvd_data: which of its two files it has written
    returned,         \* fetch_nvd_data: <<>>, then <<the tuple it returned>>
    downloaded_files, \* download_nvd_api: the paths it has collected
    delay,            \* download_nvd_api: seconds between requests of a fetch
    now,              \* the clock, in seconds since the executor was created
    futures,          \* executor.map: the state of each fetch_wrapper call
    config_sources,   \* download_data_file: config.json's list of sources
    sources,          \* download_data_file: the sources it selected
    download_attempt, \* download_data_file: attempt of its for loop
    data_file,        \* whether data/<output_filename> has been downloaded
    download_returned, \* download_data_file: <<>>, then <<what it returned>>
    aws_data,         \* env/main: aws_data['mapping_objects']
    attack_to_nist,   \* env/main: the ATT&CK to NIST mappings
    aws_controls,     \* env/main: prioritized_controls, as prioritize_controls returned it
    csv_rows,         \* export_to_csv: the rows written after the header
    json_rows,        \* export_to_json: the list dumped
    html_rows         \* export_to_html: the rows of the summary table

normVars == <<control, normalized_control, renormalized>>
riskVars == <<parsed_risks, all_risks, attack_mappings, controls_order, controls, pos,
              weights, total_score, prioritized>>
kevVars == <<kev_data, kev_i, cve_details, control_to_cves, control_to_risk>>
mainVars == <<config, outputs, log, exit_status>>
rangeVars == <<end_date_reference, total_months, max_days, default_days, today, end_date,
               start_date, current_date, date_ranges>>
fetchVars == <<all_items, total_results, start_index, attempt, written, returned, downloaded_files>>
poolVars == <<delay, now, futures>>
fileVars == <<config_sources, sources, download_attempt, data_file, download_returned>>
prioVars == <<aws_data, attack_to_nist, aws_controls, csv_rows, json_rows, html_rows>>
extVars == <<rangeVars, fetchVars, poolVars, fileVars, prioVars>>
coreVars == <<normVars, riskVars, kevVars, mainVars>>
exceptRangeVars == <<coreVars, fetchVars, poolVars, fileVars, prioVars>>
exceptFetchVars == <<coreVars, rangeVars, poolVars, fileVars, prioVars>>
exceptPoolVars == <<coreVars, rangeVars, fetchVars, fileVars, prioVars>>
exceptFileVars == <<coreVars, rangeVars, fetchVars, poolVars, prioVars>>
exceptPrioVars == <<coreVars, rangeVars, fetchVars, poolVars, fileVars>>
vars == <<pc, normVars, riskVars, kevVars, mainVars, extVars>>

(***************************************************************************)
(* Bounds of the model.                                                    *)
(***************************************************************************)
MaxIdLen == 5
MaxRisks == 2
MaxKev == 2

(***************************************************************************)
(* Characters.                                                             *)
(***************************************************************************)
NL == "\n"

LowerLetters == <<"a", "c", "i", "s">>
UpperLetters == <<"A", "C", "I", "S">>
Digits == {"0", "1", "2", "3", "4", "5", "6", "7", "8", "9"}

\* The characters identifiers are drawn from.
IdChars == {"a", "C", "0", "2", "-", NL}

IsLetter(ch) == \E i \in 1..Len(LowerLetters) : ch = LowerLetters[i] \/ ch = UpperLetters[i]

IsDigit(ch) == ch \in Digits

\* str.upper() on one character.
UpperChar(ch) ==
    IF \E i \in 1..Len(LowerLetters) : ch = LowerLetters[i]
    THEN UpperLetters[CHOOSE i \in 1..Len(LowerLetters) : ch = LowerLetters[i]]
    ELSE ch

\* str.upper()
Upper(s) == [i \in 1..Len(s) |-> UpperChar(s[i])]

\* The positions at which the pattern's `$` matches: the end of the string, and
\* just before a newline that is the string's last character.
DollarEnds(u) ==
    {Len(u)} \cup (IF Len(u) > 0 /\ u[Len(u)] = NL THEN {Len(u) - 1} ELSE {})

\* The matches of ^([a-zA-Z]+)-0*(\d+)$ in u, each as <<i, j, e>>: group 1 is
\* u[1..i], the hyphen is u[i+1], 0* takes u[i+2..j], group 2 is u[j+1..e] and
\* `$` matches at e.
ControlMatches(u) ==
    {m \in (1..Len(u)) \X (1..Len(u)) \X DollarEnds(u) :
        /\ \A k \in 1..m[1] : IsLetter(u[k])
        /\ m[1] + 1 <= Len(u)
        /\ u[m[1] + 1] = "-"
        /\ m[2] >= m[1] + 1
        /\ \A k \in (m[1] + 2)..m[2] : u[k] = "0"
        /\ m[3] >= m[2] + 1
        /\ \A k \in (m[2] + 1)..m[3] : IsDigit(u[k])}

\* A mutant of ZeroRunEnd: the pattern written with 0? in place of 0*.
ZeroRunEndOptional(u, M) ==
    LET short == {m \in M : m[2] <= m[1] + 2}
    IN  CHOOSE m \in short : \A o \in short : o[2] <= m[2]

\* The match the regex engine reports: 0* is greedy, so it takes the longest
\* run of zeros that still leaves \d+ a digit.
ZeroRunEnd(u, M) == CHOOSE m \in M : \A o \in M : o[2] <= m[2]

\* re.sub(r'^([a-zA-Z]+)-0*(\d+)$', r'\1-\2', control.upper())
NormalizeControl(c) ==
    LET u == Upper(c)
        M == ControlMatches(u)
    IN  IF M = {} THEN u
        ELSE LET m == ZeroRunEnd(u, M)
             IN  SubSeq(u, 1, m[1]) \o <<"-">> \o SubSeq(u, m[2] + 1, m[3])
                     \o SubSeq(u, m[3] + 1, Len(u))

(***************************************************************************)
(* The values a variable holds before it is assigned.                      *)
(***************************************************************************)
None == "None"

RECURSIVE StringsUpTo(_)
StringsUpTo(n) ==
    IF n = 0 THEN {<<>>}
    ELSE LET shorter == StringsUpTo(n - 1)
         IN  shorter \cup {Append(s, ch) : s \in {t \in shorter : Len(t) = n - 1}, ch \in IdChars}

(***************************************************************************)
(* parse_attack_mapping's normalisation of one capability_id.              *)
(***************************************************************************)
\* The variables of the risk pipeline, before it has run.
RiskIdle ==
    /\ parsed_risks = <<>>
    /\ all_risks = <<>>
    /\ attack_mappings = <<>>
    /\ controls_order = <<>>
    /\ controls = <<>>
    /\ pos = 1
    /\ weights = None
    /\ total_score = <<>>
    /\ prioritized = None

\* The variables of calculate_control_risks, before it has run.
KevIdle ==
    /\ kev_data = <<>>
    /\ kev_i = 1
    /\ cve_details = <<>>
    /\ control_to_cves = <<>>
    /\ control_to_risk = None

\* main has not run.
MainIdle ==
    /\ config = <<>>
    /\ outputs = {}
    /\ log = {}
    /\ exit_status = None

\* download_nvd_api has not been called: its parameters hold their defaults.
RangeIdle ==
    /\ end_date_reference = "last_saturday"
    /\ total_months = 6
    /\ max_days = 60
    /\ default_days = 7
    /\ today = <<>>
    /\ end_date = <<>>
    /\ start_date = <<>>
    /\ current_date = <<>>
    /\ date_ranges = <<>>

\* fetch_nvd_data has not been called.
FetchIdle ==
    /\ all_items = 0
    /\ total_results = 0
    /\ start_index = 0
    /\ attempt = 0
    /\ written = {}
    /\ returned = <<>>
    /\ downloaded_files = <<>>

\* The executor of download_nvd_api has not been created.
PoolIdle ==
    /\ delay = 30
    /\ now = 0
    /\ futures = <<>>

\* download_data_file has not been called.
FileIdle ==
    /\ config_sources = <<>>
    /\ sources = <<>>
    /\ download_attempt = 1
    /\ data_file = "absent"
    /\ download_returned = <<>>

\* env/main has not loaded or exported anything.
PrioIdle ==
    /\ aws_data = <<>>
    /\ attack_to_nist = <<>>
    /\ aws_controls = <<>>
    /\ csv_rows = <<>>
    /\ json_rows = <<>>
    /\ html_rows = <<>>

\* The variables of the download and export adapters, before they have run.
ExtIdle ==
    /\ RangeIdle
    /\ FetchIdle
    /\ PoolIdle
    /\ FileIdle
    /\ PrioIdle

\* The variables of the normaliser, before it has run.
NormIdle ==
    /\ control = <<>>
    /\ normalized_control = None
    /\ renormalized = None

InitNorm ==
    /\ pc = "raw"
    /\ control \in StringsUpTo(MaxIdLen)
    /\ normalized_control = None
    /\ renormalized = None
    /\ RiskIdle
    /\ KevIdle
    /\ MainIdle
    /\ ExtIdle

\* normalized_control = re.sub(..., control.upper())
Normalize ==
    /\ pc = "raw"
    /\ normalized_control' = NormalizeControl(control)
    /\ pc' = "normalized"
    /\ UNCHANGED <<extVars, control, renormalized, riskVars, kevVars, mainVars>>

\* The normalised id fed to the normaliser again.
NormalizeAgain ==
    /\ pc = "normalized"
    /\ renormalized' = NormalizeControl(normalized_control)
    /\ pc' = "renormalized"
    /\ UNCHANGED <<extVars, control, normalized_control, riskVars, kevVars, mainVars>>

NextNorm == Normalize \/ NormalizeAgain

SpecNorm == InitNorm /\ [][NextNorm]_vars

(***************************************************************************)
(* The risk pipeline of main: map_risks_to_controls, then                  *)
(* normalize_and_prioritize.                                               *)
(***************************************************************************)
AC2 == <<"A", "C", "-", "2">>
ac2 == <<"a", "c", "-", "2">>
AC02 == <<"A", "C", "-", "0", "2">>
CA7 == <<"C", "A", "-", "7">>
ca7 == <<"c", "a", "-", "7">>
SI2 == <<"S", "I", "-", "2">>
si2 == <<"s", "i", "-", "2">>

Range(s) == {s[i] : i \in 1..Len(s)}

Reverse(s) == [i \in 1..Len(s) |-> s[Len(s) + 1 - i]]

\* The orders in which a list made of a set can come out.
ListsOfSet(S) == {s \in [1..Cardinality(S) -> S] : Range(s) = S}

\* The control ids of the OSCAL catalog file, in document order.
CatalogFiles == {<<ac2, ca7, si2>>, <<si2, ca7, ac2>>}

\* load_nist_controls with a readable catalog: the keys, in insertion order.
CatalogKeys(catalog) == [i \in 1..Len(catalog) |-> Upper(catalog[i])]

\* control["title"] of the catalog's control stored under control_id: some
\* text that is not the identifier.
ControlTitle(control_id) == <<"title of ">> \o control_id

\* group["title"] of the group the control is listed in.
FamilyTitle(control_id) == <<"family of ">> \o control_id

\* load_nist_controls: the details a catalog control starts with.
NewControl(control_id) ==
    [title |-> ControlTitle(control_id), family_title |-> FamilyTitle(control_id),
     applicability |-> 70, max_exploitation |-> 0, max_severity |-> 0]

\* load_attack_mappings: technique -> control ids; empty when the file is
\* missing or malformed.
AttackMappingFiles == {<<>>, [t \in {"T1190"} |-> <<CA7>>]}

\* The risks a parser can produce.
ScorePairs == {<<90, 80>>, <<50, 90>>}
ControlLists == {<<>>, <<AC02, ca7>>, <<AC2>>}
Cwes == {"", "CWE-22"}

Risks ==
    {[mitigating_controls |-> cl, exploitation_score |-> sp[1],
      impact_score |-> sp[2], cwe |-> w] :
        cl \in ControlLists, sp \in ScorePairs, w \in Cwes}

\* The lists of n risks.
RECURSIVE RiskListsOfLen(_)
RiskListsOfLen(n) ==
    IF n = 0 THEN {<<>>}
    ELSE {Append(l, r) : l \in RiskListsOfLen(n - 1), r \in Risks}

\* The sources parse_all_datasets fills in, in the order it fills them in.
SourceNames == <<"cisa_kev", "kev_attack">>

\* What parse_all_datasets can return: no source at all, or both sources
\* with at most MaxRisks risks between them.
AllRisksInputs ==
    LET entry(n, l) == [source_name |-> n, risks |-> l]
        sizes == {kj \in (0..MaxRisks) \X (0..MaxRisks) : kj[1] + kj[2] <= MaxRisks}
    IN  {<<>>}
        \cup UNION {{<<entry(SourceNames[1], a), entry(SourceNames[2], b)>> :
                        a \in RiskListsOfLen(kj[1]), b \in RiskListsOfLen(kj[2])} :
                    kj \in sizes}

\* The weights of config.json.
WeightConfigs ==
    {[exploitation |-> w[1], severity |-> w[2], applicability |-> w[3]] :
        w \in {<<400, 400, 200>>, <<500, 500, 500>>, <<335, 335, 330>>,
               <<405, 400, 200>>, <<385, 400, 200>>, <<415, 400, 200>>}}

\* main: the default of config.get('weights', ...).
DefaultWeights == [exploitation |-> 400, severity |-> 400, applicability |-> 200]

\* The dicts load_config returns from a readable config.json: "sources"
\* names no source or the CISA KEV and KEV ATTACK Mapping sources, and
\* "weights" is absent (<<>>) or present, summing to 1.0 (0.335, 0.335,
\* 0.33) or not (0.5, 0.5, 0.5).
ConfigFiles ==
    {[sources |-> s, weights |-> w] :
        s \in {{}, {"CISA KEV", "KEV ATTACK Mapping"}},
        w \in {<<>>} \cup {<<x>> : x \in {y \in WeightConfigs : y.exploitation \in {335, 500}}}}

\* load_config: the {} returned when config.json cannot be read.
EmptyConfig == [sources |-> {}, weights |-> <<>>]

\* weights = config.get('weights', {...})
ConfigWeights(cfg) == IF cfg.weights = <<>> THEN DefaultWeights ELSE cfg.weights[1]

\* `pat in cwe` for the weakness classes of Cwes.
CweContains(cwe, pat) == cwe = pat

\* The if/elif chain over the weakness class: the technique whose controls
\* are added, or None.
CweTechnique(cwe) ==
    IF CweContains(cwe, "CWE-22") THEN "T1190"
    ELSE IF CweContains(cwe, "CWE-79") THEN "T1566"
    ELSE IF \E id \in {"CWE-94", "CWE-288", "CWE-502", "CWE-78", "CWE-287"} : CweContains(cwe, id)
         THEN "T1078"
    ELSE IF CweContains(cwe, "CWE-416") THEN "T1203"
    ELSE None

\* A mutant of Enhanced: the source name is not looked at.
EnhancedAnySource(source_name, mappings) == DOMAIN mappings # {}

\* source_name in ["nvd_cve", "cisa_kev", "fallback"] and attack_mappings
Enhanced(source_name, mappings) ==
    /\ source_name \in {"nvd_cve", "cisa_kev", "fallback"}
    /\ DOMAIN mappings # {}

\* risk["mitigating_controls"] after the ATT&CK enhancement: extend()
\* appends to the risk's own list.
ExtendedControls(source_name, risk, mappings) ==
    IF /\ Enhanced(source_name, mappings)
       /\ CweTechnique(risk.cwe) \in DOMAIN mappings
    THEN risk.mitigating_controls \o mappings[CweTechnique(risk.cwe)]
    ELSE risk.mitigating_controls

\* The lists controls_to_map can be when the inner loop starts: list(set(..))
\* of the extended list for an enhanced source, the risk's list otherwise.
ControlsToMap(source_name, risk, mappings) ==
    IF Enhanced(source_name, mappings)
    THEN ListsOfSet(Range(ExtendedControls(source_name, risk, mappings)))
    ELSE {risk.mitigating_controls}

\* max(a, b)
Max2(a, b) == IF b > a THEN b ELSE a

\* A mutant of UpdateScore: only the first score a control receives is kept.
UpdateScoreFirst(existing, score) == IF existing = 0 THEN score ELSE existing

\* A mutant of UpdateScore: the record's score overwrites the stored one.
UpdateScoreOverwrite(existing, score) == score

\* max(controls[control_id][...], risk[...])
UpdateScore(existing, score) == Max2(existing, score)

\* control_id = control_id.upper()
ControlKey(control_id) == Upper(control_id)

\* A mutant of UpdateControl: an identifier that is not in the dict gets an
\* entry of its own.
UpdateControlCreating(ctrls, control_id, risk) ==
    LET key == Upper(control_id)
    IN  [k \in DOMAIN ctrls \cup {key} |->
            IF k # key THEN ctrls[k]
            ELSE [title |-> key, family_title |-> <<"Unknown">>, applicability |-> 70,
                  max_exploitation |-> IF key \in DOMAIN ctrls
                                       THEN Max2(ctrls[key].max_exploitation, risk.exploitation_score)
                                       ELSE risk.exploitation_score,
                  max_severity |-> IF key \in DOMAIN ctrls
                                   THEN Max2(ctrls[key].max_severity, risk.impact_score)
                                   ELSE risk.impact_score]]

\* One pass of the body of `for control_id in controls_to_map`.
UpdateControl(ctrls, control_id, risk) ==
    LET key == ControlKey(control_id)
    IN  IF key \in DOMAIN ctrls
        THEN [ctrls EXCEPT
                ![key].max_exploitation = UpdateScore(@, risk.exploitation_score),
                ![key].max_severity = UpdateScore(@, risk.impact_score)]
        ELSE ctrls

\* for control_id in controls_to_map: ...
RECURSIVE MapControls(_, _, _)
MapControls(ctrls, ids, risk) ==
    IF ids = <<>> THEN ctrls
    ELSE MapControls(UpdateControl(ctrls, Head(ids), risk), Tail(ids), risk)

\* for control_id in controls_to_map: ..., for a risk that may lack
\* "exploitation_score" or "impact_score": risk[...] raises KeyError when
\* it is reached, that is, for the first identifier found in controls;
\* max_exploitation is assigned before risk["impact_score"] is read.
RECURSIVE MapControlsRaising(_, _, _)
MapControlsRaising(ctrls, ids, risk) ==
    IF ids = <<>> THEN [controls |-> ctrls, raised |-> FALSE]
    ELSE LET key == ControlKey(Head(ids))
         IN  IF key \notin DOMAIN ctrls THEN MapControlsRaising(ctrls, Tail(ids), risk)
             ELSE IF "exploitation_score" \notin DOMAIN risk
                  THEN [controls |-> ctrls, raised |-> TRUE]
             ELSE IF "impact_score" \notin DOMAIN risk
                  THEN [controls |-> [ctrls EXCEPT ![key].max_exploitation =
                                        UpdateScore(@, risk.exploitation_score)],
                        raised |-> TRUE]
             ELSE MapControlsRaising(UpdateControl(ctrls, Head(ids), risk), Tail(ids), risk)

\* The risks in the order the two loops reach them, as <<source, risk>> index
\* pairs.
RECURSIVE PositionsFrom(_, _)
PositionsFrom(risks, s) ==
    IF s > Len(risks) THEN <<>>
    ELSE [r \in 1..Len(risks[s].risks) |-> <<s, r>>] \o PositionsFrom(risks, s + 1)

Positions(risks) == PositionsFrom(risks, 1)

\* The body of `for risk in risks`, as a function of the controls dict.
MapOneRisk(ctrls, source_name, risk, mappings) ==
    MapControls(ctrls, CHOOSE l \in ControlsToMap(source_name, risk, mappings) : TRUE, risk)

\* for risk in risks: ...
RECURSIVE MapSource(_, _, _, _)
MapSource(ctrls, source_name, risks, mappings) ==
    IF risks = <<>> THEN ctrls
    ELSE MapSource(MapOneRisk(ctrls, source_name, Head(risks), mappings),
                   source_name, Tail(risks), mappings)

\* for source_name, risks in all_risks.items(): ...
RECURSIVE MapAllRisks(_, _, _)
MapAllRisks(ctrls, risks, mappings) ==
    IF risks = <<>> THEN ctrls
    ELSE MapAllRisks(MapSource(ctrls, Head(risks).source_name, Head(risks).risks, mappings),
                     Tail(risks), mappings)

\* The ways load_nist_controls can fail, and what the failing statement
\* raises: requests.get or raise_for_status, open(filepath, "wb") and
\* f.write, json.load, a missing "catalog", "groups", "id", "title" or
\* "controls" key, and indexing or .upper() on a value of another type.
CatalogFailures ==
    {[condition |-> "cannot be downloaded", raises |-> "RequestException"],
     [condition |-> "cannot be written", raises |-> "OSError"],
     [condition |-> "is not JSON", raises |-> "JSONDecodeError"],
     [condition |-> "lacks a key", raises |-> "KeyError"],
     [condition |-> "holds a value of another type", raises |-> "TypeError"]}

\* except requests.RequestException; except (KeyError, json.JSONDecodeError)
CaughtByLoad(exception) == exception \in {"RequestException", "KeyError", "JSONDecodeError"}

Init ==
    /\ pc = "start"
    /\ NormIdle
    /\ KevIdle
    /\ MainIdle
    /\ ExtIdle
    /\ parsed_risks \in AllRisksInputs
    /\ all_risks = parsed_risks
    /\ attack_mappings = <<>>
    /\ controls_order = <<>>
    /\ controls = <<>>
    /\ pos = 1
    /\ weights = None
    /\ total_score = <<>>
    /\ prioritized = None

\* controls = load_nist_controls() with a catalog that loads;
\* attack_mappings = load_attack_mappings(data_dir)
LoadControls ==
    /\ pc = "start"
    /\ \E catalog \in CatalogFiles :
        /\ controls_order' = CatalogKeys(catalog)
        /\ controls' = [k \in Range(CatalogKeys(catalog)) |-> NewControl(k)]
    /\ attack_mappings' \in AttackMappingFiles
    /\ pc' = "mapping"
    /\ UNCHANGED <<extVars, normVars, kevVars, mainVars, parsed_risks, all_risks, pos, weights, total_score, prioritized>>

\* load_nist_controls() returning {}: the catalog cannot be downloaded or
\* has an unexpected structure.
LoadControlsFailed ==
    /\ pc = "start"
    /\ \E failure \in CatalogFailures : CaughtByLoad(failure.raises)
    /\ controls_order' = <<>>
    /\ controls' = <<>>
    /\ attack_mappings' \in AttackMappingFiles
    /\ pc' = "mapping"
    /\ UNCHANGED <<extVars, normVars, kevVars, mainVars, parsed_risks, all_risks, pos, weights, total_score, prioritized>>

\* load_nist_controls() failing with an exception none of its handlers
\* takes: it leaves map_risks_to_controls before anything else is loaded.
LoadControlsRaised ==
    /\ pc = "start"
    /\ \E failure \in CatalogFailures :
        /\ ~CaughtByLoad(failure.raises)
        /\ pc' = failure.raises
    /\ UNCHANGED <<extVars, normVars, kevVars, mainVars, riskVars>>

\* One pass of the body of `for risk in risks`.
MapRisk ==
    /\ pc = "mapping"
    /\ pos <= Len(Positions(all_risks))
    /\ LET s == Positions(all_risks)[pos][1]
           r == Positions(all_risks)[pos][2]
           source_name == all_risks[s].source_name
           risk == all_risks[s].risks[r]
       IN  /\ all_risks' = [all_risks EXCEPT ![s].risks[r].mitigating_controls =
                                ExtendedControls(source_name, risk, attack_mappings)]
           /\ \E controls_to_map \in ControlsToMap(source_name, risk, attack_mappings) :
                /\ ~MapControlsRaising(controls, controls_to_map, risk).raised
                /\ controls' = MapControls(controls, controls_to_map, risk)
    /\ pos' = pos + 1
    /\ UNCHANGED <<extVars, pc, normVars, kevVars, mainVars, parsed_risks, attack_mappings, controls_order, weights,
                   total_score, prioritized>>

\* The body of `for risk in risks` left by the KeyError of risk[...].
MapRiskKeyError ==
    /\ pc = "mapping"
    /\ pos <= Len(Positions(all_risks))
    /\ LET s == Positions(all_risks)[pos][1]
           r == Positions(all_risks)[pos][2]
           source_name == all_risks[s].source_name
           risk == all_risks[s].risks[r]
       IN  /\ all_risks' = [all_risks EXCEPT ![s].risks[r].mitigating_controls =
                                ExtendedControls(source_name, risk, attack_mappings)]
           /\ \E controls_to_map \in ControlsToMap(source_name, risk, attack_mappings) :
                /\ MapControlsRaising(controls, controls_to_map, risk).raised
                /\ controls' = MapControlsRaising(controls, controls_to_map, risk).controls
    /\ pc' = "KeyError"
    /\ UNCHANGED <<extVars, normVars, kevVars, mainVars, parsed_risks, attack_mappings, controls_order, pos, weights,
                   total_score, prioritized>>

\* The loops are over: return controls, attack_mappings
ReturnControls ==
    /\ pc = "mapping"
    /\ pos > Len(Positions(all_risks))
    /\ pc' = "mapped"
    /\ UNCHANGED <<extVars, normVars, kevVars, mainVars, riskVars>>

\* total_weight = sum(weights.values())
TotalWeight(w) == w.exploitation + w.severity + w.applicability

Abs(x) == IF x < 0 THEN -x ELSE x

\* A mutant of WeightsRejected: no weights are rejected.
WeightsRejectedNever(w) == FALSE

\* A mutant of WeightsRejected: the sum has to be 1.0 exactly.
WeightsRejectedExact(w) == w.exploitation + w.severity + w.applicability # 1000

\* abs(total_weight - 1.0) > 0.01
WeightsRejected(w) == Abs(TotalWeight(w) - 1000) > 10

\* round(x, 2) of a value in ten-thousandths, halves to the even hundredth.
RoundTo2(x) ==
    LET r == x % 100
        down == x - r
    IN  IF r < 50 THEN down
        ELSE IF r > 50 THEN down + 100
        ELSE IF (down \div 100) % 2 = 0 THEN down ELSE down + 100

\* A mutant of TotalScore: the sum is rounded to 2 decimal places.
TotalScoreRounded(w, c) ==
    RoundTo2(w.exploitation * c.max_exploitation
                + w.severity * c.max_severity
                + w.applicability * c.applicability)

\* The value assigned to control["total_score"].
TotalScore(w, c) ==
    w.exploitation * c.max_exploitation
        + w.severity * c.max_severity
        + w.applicability * c.applicability

\* A mutant of InsertByScore: an id is put before the ids already placed
\* whose key is equal.
RECURSIVE InsertBeforeEqual(_, _, _)
InsertBeforeEqual(sorted, id, score) ==
    IF sorted = <<>> THEN <<id>>
    ELSE IF score[Head(sorted)] < score[id]
         THEN <<Head(sorted)>> \o InsertBeforeEqual(Tail(sorted), id, score)
         ELSE <<id>> \o sorted

\* A stable ascending sort of ids by the key `score`: each id is put after
\* the ids already placed whose key is not greater.
RECURSIVE InsertByScore(_, _, _)
InsertByScore(sorted, id, score) ==
    IF sorted = <<>> THEN <<id>>
    ELSE IF score[Head(sorted)] <= score[id]
         THEN <<Head(sorted)>> \o InsertByScore(Tail(sorted), id, score)
         ELSE <<id>> \o sorted

RECURSIVE StableSort(_, _)
StableSort(ids, score) ==
    IF ids = <<>> THEN <<>>
    ELSE InsertByScore(StableSort(SubSeq(ids, 1, Len(ids) - 1), score), ids[Len(ids)], score)

\* A mutant of SortedDescending: only the two best controls are returned.
SortedTop2(ids, score) ==
    SubSeq(Reverse(StableSort(Reverse(ids), score)), 1, IF Len(ids) < 2 THEN Len(ids) ELSE 2)

\* A mutant of SortedDescending: sorted(..) without reverse=True.
SortedAscending(ids, score) == StableSort(ids, score)

\* A mutant of SortedDescending: an ascending sort, reversed afterwards.
SortedThenReversed(ids, score) == Reverse(StableSort(ids, score))

\* sorted(controls.items(), key=..., reverse=True): the list is reversed,
\* sorted stably in ascending order and reversed again, so that equal keys
\* keep their order.
SortedDescending(ids, score) == Reverse(StableSort(Reverse(ids), score))

\* The weights normalize_and_prioritize is called with: those of the
\* config when main calls it, any weights for another caller.
WeightsArguments ==
    IF config = <<>> THEN WeightConfigs ELSE {ConfigWeights(config[1])}

\* normalize_and_prioritize(controls, weights), the weights summing to 1.0.
Prioritize ==
    /\ pc = "mapped"
    /\ \E w \in WeightsArguments :
        /\ ~WeightsRejected(w)
        /\ weights' = w
        /\ total_score' = [k \in DOMAIN controls |-> TotalScore(w, controls[k])]
        /\ prioritized' = SortedDescending(controls_order, total_score')
    /\ pc' = "prioritized"
    /\ UNCHANGED <<extVars, normVars, kevVars, mainVars, parsed_risks, all_risks, attack_mappings, controls_order,
                   controls, pos>>

\* normalize_and_prioritize(controls, weights) raising ValueError.
PrioritizeRejected ==
    /\ pc = "mapped"
    /\ \E w \in WeightsArguments :
        /\ WeightsRejected(w)
        /\ weights' = w
    /\ pc' = "ValueError"
    /\ UNCHANGED <<extVars, normVars, kevVars, mainVars, parsed_risks, all_risks, attack_mappings, controls_order,
                   controls, pos, total_score, prioritized>>

Next ==
    \/ LoadControls
    \/ LoadControlsFailed
    \/ LoadControlsRaised
    \/ MapRisk
    \/ ReturnControls
    \/ Prioritize
    \/ PrioritizeRejected

Spec == Init /\ [][Next]_vars

(***************************************************************************)
(* map_risks_to_controls and normalize_and_prioritize called on records a  *)
(* caller supplies: the records of the parsers, and records without        *)
(* "exploitation_score", without "impact_score" or without both.           *)
(***************************************************************************)
SuppliedRisks ==
    {r \in Risks : r.cwe = ""}
    \cup {[mitigating_controls |-> cl, impact_score |-> 80, cwe |-> ""] : cl \in ControlLists}
    \cup {[mitigating_controls |-> cl, exploitation_score |-> 90, cwe |-> ""] : cl \in ControlLists}
    \cup {[mitigating_controls |-> cl, cwe |-> ""] : cl \in ControlLists}

RECURSIVE SuppliedListsOfLen(_)
SuppliedListsOfLen(n) ==
    IF n = 0 THEN {<<>>}
    ELSE {Append(l, r) : l \in SuppliedListsOfLen(n - 1), r \in SuppliedRisks}

\* One source with at most MaxRisks records.
SuppliedInputs ==
    {<<[source_name |-> SourceNames[1], risks |-> l]>> :
        l \in UNION {SuppliedListsOfLen(n) : n \in 0..MaxRisks}}

InitSupplied ==
    /\ pc = "start"
    /\ NormIdle
    /\ KevIdle
    /\ MainIdle
    /\ ExtIdle
    /\ parsed_risks \in SuppliedInputs
    /\ all_risks = parsed_risks
    /\ attack_mappings = <<>>
    /\ controls_order = <<>>
    /\ controls = <<>>
    /\ pos = 1
    /\ weights = None
    /\ total_score = <<>>
    /\ prioritized = None

NextSupplied ==
    \/ Next
    \/ MapRiskKeyError

SpecSupplied == InitSupplied /\ [][NextSupplied]_vars

(***************************************************************************)
(* main: the key, the config, the downloads, the ATT&CK file, the parse,   *)
(* then the pipeline above, write_outputs and the end of the process.  An  *)
(* exception that leaves a stage is the value of pc until main's handler   *)
(* takes it.                                                               *)
(***************************************************************************)
InitMain ==
    /\ pc = "main"
    /\ NormIdle
    /\ KevIdle
    /\ RiskIdle
    /\ MainIdle
    /\ ExtIdle

\* api_key = load_nvd_api_key(), the key found.
LoadApiKey ==
    /\ pc = "main"
    /\ pc' = "load_config"
    /\ UNCHANGED <<extVars, normVars, kevVars, riskVars, mainVars>>

\* load_nvd_api_key() logging its failure and returning None:
\* raise ValueError("No NVD API key provided")
LoadApiKeyFailed ==
    /\ pc = "main"
    /\ log' = log \cup {"Failed to load NVD_API_KEY"}
    /\ pc' = "ValueError"
    /\ UNCHANGED <<extVars, normVars, kevVars, riskVars, config, outputs, exit_status>>

\* config = load_config(), config.json read.
LoadConfig ==
    /\ pc = "load_config"
    /\ \E cfg \in ConfigFiles : config' = <<cfg>>
    /\ pc' = "download"
    /\ UNCHANGED <<extVars, normVars, kevVars, riskVars, outputs, log, exit_status>>

\* load_config() logging its failure and returning {}.
LoadConfigFailed ==
    /\ pc = "load_config"
    /\ config' = <<EmptyConfig>>
    /\ log' = log \cup {"Failed to load config"}
    /\ pc' = "download"
    /\ UNCHANGED <<extVars, normVars, kevVars, riskVars, outputs, exit_status>>

\* download_datasets(config, data_dir): a download that fails with a
\* RequestException is logged by download_file and the loop goes on.
DownloadDatasets ==
    /\ pc = "download"
    /\ pc' = "attack_mappings"
    /\ UNCHANGED <<extVars, normVars, kevVars, riskVars, mainVars>>

\* download_datasets left by the OSError of os.makedirs or open, which
\* download_file does not catch; there is a download only for a source.
DownloadDatasetsRaised ==
    /\ pc = "download"
    /\ config[1].sources # {}
    /\ pc' = "OSError"
    /\ UNCHANGED <<extVars, normVars, kevVars, riskVars, mainVars>>

\* with open(attack_mappings_path, 'r') as f: attack_mappings = json.load(f)
OpenAttackMappings ==
    /\ pc = "attack_mappings"
    /\ pc' = "parse"
    /\ UNCHANGED <<extVars, normVars, kevVars, riskVars, mainVars>>

\* data/attack_mapping.json is missing or is not JSON.
OpenAttackMappingsRaised ==
    /\ pc = "attack_mappings"
    /\ pc' \in {"OSError", "JSONDecodeError"}
    /\ UNCHANGED <<extVars, normVars, kevVars, riskVars, mainVars>>

\* all_risks = parse_all_datasets(data_dir, attack_mappings, config): only
\* the sources of the config are looked for.
ParseAllDatasets ==
    /\ pc = "parse"
    /\ parsed_risks' \in (IF config[1].sources = {} THEN {<<>>} ELSE AllRisksInputs)
    /\ all_risks' = parsed_risks'
    /\ pc' = "start"
    /\ UNCHANGED <<extVars, normVars, kevVars, mainVars, attack_mappings, controls_order, controls, pos,
                   weights, total_score, prioritized>>

\* The exceptions that reach main's `except Exception`.
MainExceptions == {"ValueError", "OSError", "JSONDecodeError", "TypeError", "KeyError"}

\* except Exception as e: logging.error(f"Processing failed: {e}")
MainCaught ==
    /\ pc \in MainExceptions
    /\ log' = log \cup {"Processing failed"}
    /\ pc' = "returned"
    /\ UNCHANGED <<extVars, normVars, kevVars, riskVars, config, outputs, exit_status>>

\* The files write_outputs has written when the statement that fails in
\* it is reached: controls.json first; then the CSV rows read
\* details['risk_contexts'], a key map_risks_to_controls never sets, so
\* the CSV is written only for no control at all; the HTML part reads the
\* names config and get_last_saturday, which main.py does not define.
WrittenFiles(prioritized_controls) ==
    IF prioritized_controls # <<>> THEN {"controls.json"}
    ELSE {"controls.json", "top_50_controls.csv"}

\* write_outputs(prioritized_controls, output_dir, weights): its handler
\* logs the exception and the call returns; main logs "Processing
\* complete".  The output directory may not be writable at all.
WriteOutputs ==
    /\ pc = "prioritized"
    /\ outputs' \in {{}, WrittenFiles(prioritized)}
    /\ log' = log \cup {"Failed to write outputs"}
    /\ pc' = "returned"
    /\ UNCHANGED <<extVars, normVars, kevVars, riskVars, config, exit_status>>

\* main() has returned and the interpreter ends.
Exit ==
    /\ pc = "returned"
    /\ exit_status' = 0
    /\ pc' = "exit"
    /\ UNCHANGED <<extVars, normVars, kevVars, riskVars, config, outputs, log>>

NextMain ==
    \/ LoadApiKey
    \/ LoadApiKeyFailed
    \/ LoadConfig
    \/ LoadConfigFailed
    \/ DownloadDatasets
    \/ DownloadDatasetsRaised
    \/ OpenAttackMappings
    \/ OpenAttackMappingsRaised
    \/ ParseAllDatasets
    \/ Next
    \/ MainCaught
    \/ WriteOutputs
    \/ Exit

SpecMain == InitMain /\ [][NextMain]_vars

(***************************************************************************)
(* calculate_control_risks: the KEV items folded into one risk per         *)
(* control.  A dueDate is <<>> for 'N/A' and <<d>> for a date d days from  *)
(* now; a risk_score is in tenths.                                         *)
(***************************************************************************)
KevItems == {[cveID |-> c, dueDate |-> d] : c \in {"CVE-1", "CVE-2"}, d \in {<<>>, <<10>>, <<60>>}}

RECURSIVE KevListsUpTo(_)
KevListsUpTo(n) ==
    IF n = 0 THEN {<<>>}
    ELSE LET shorter == KevListsUpTo(n - 1)
         IN  shorter \cup {Append(l, x) : l \in {t \in shorter : Len(t) = n - 1}, x \in KevItems}

\* parse_kev_attack_mapping('data/kev_attack_mapping.json')
cve_to_techniques == [c \in {"CVE-1", "CVE-2"} |->
                        IF c = "CVE-1" THEN <<"T1190", "T1566">> ELSE <<"T1190">>]

\* parse_attack_mapping('data/attack_mapping.json'): the capability ids of
\* each technique, normalised.
technique_to_controls ==
    [t \in {"T1190", "T1566"} |->
        IF t = "T1190" THEN <<NormalizeControl(AC02), NormalizeControl(ac2)>>
        ELSE <<NormalizeControl(ac2), NormalizeControl(ca7)>>]

\* urgency_threshold = current_date + timedelta(days=30), in days from now.
UrgencyDays == 30

\* Base risk score of 1, boosted to 1.5 if dueDate is within 30 days.
RiskScore(item) ==
    IF item.dueDate # <<>> /\ item.dueDate[1] <= UrgencyDays THEN 15 ELSE 10

\* The controls item's cve reaches through its techniques.
ControlsOf(cve) ==
    IF cve \notin DOMAIN cve_to_techniques THEN {}
    ELSE UNION {IF cve_to_techniques[cve][t] \in DOMAIN technique_to_controls
                THEN Range(technique_to_controls[cve_to_techniques[cve][t]])
                ELSE {} : t \in 1..Len(cve_to_techniques[cve])}

\* control_to_cves[control], a defaultdict(set).
CvesOf(c2c, c) == IF c \in DOMAIN c2c THEN c2c[c] ELSE {}

\* control_to_cves[control].add((cve, risk_score))
AddCve(cve_set, cve, risk_score) == cve_set \cup {<<cve, risk_score>>}

RECURSIVE SumRisk(_)
SumRisk(cve_set) ==
    IF cve_set = {} THEN 0
    ELSE LET e == CHOOSE x \in cve_set : TRUE
         IN  e[2] + SumRisk(cve_set \ {e})

InitKev ==
    /\ pc = "items"
    /\ NormIdle
    /\ RiskIdle
    /\ MainIdle
    /\ ExtIdle
    /\ kev_data \in KevListsUpTo(MaxKev)
    /\ kev_i = 1
    /\ cve_details = <<>>
    /\ control_to_cves = <<>>
    /\ control_to_risk = None

\* One pass of the body of `for item in kev_data`.
AddKevItem ==
    /\ pc = "items"
    /\ kev_i <= Len(kev_data)
    /\ LET item == kev_data[kev_i]
           cve == item.cveID
           reached == ControlsOf(cve)
       IN  /\ cve_details' = [c \in DOMAIN cve_details \cup {cve} |->
                                IF c = cve THEN [dueDate |-> item.dueDate] ELSE cve_details[c]]
           /\ control_to_cves' = [c \in DOMAIN control_to_cves \cup reached |->
                                    IF c \in reached
                                    THEN AddCve(CvesOf(control_to_cves, c), cve, RiskScore(item))
                                    ELSE control_to_cves[c]]
    /\ kev_i' = kev_i + 1
    /\ UNCHANGED <<extVars, pc, normVars, riskVars, mainVars, kev_data, control_to_risk>>

\* Sum risk scores for each control; the cves come out in the set's order.
SumControlRisks ==
    /\ pc = "items"
    /\ kev_i > Len(kev_data)
    /\ \E order \in [DOMAIN control_to_cves ->
                        UNION {ListsOfSet(control_to_cves[c]) : c \in DOMAIN control_to_cves}] :
        /\ \A c \in DOMAIN control_to_cves : Range(order[c]) = control_to_cves[c]
        /\ control_to_risk' = [c \in DOMAIN control_to_cves |->
                                [total_risk |-> SumRisk(control_to_cves[c]),
                                 cves |-> [i \in 1..Len(order[c]) |-> order[c][i][1]]]]
    /\ pc' = "summed"
    /\ UNCHANGED <<extVars, normVars, riskVars, mainVars, kev_data, kev_i, cve_details, control_to_cves>>

NextKev == AddKevItem \/ SumControlRisks

SpecKev == InitKev /\ [][NextKev]_vars

(***************************************************************************)
(* Helpers of the properties.                                              *)
(***************************************************************************)
MaxOf(S) == IF S = {} THEN 0 ELSE CHOOSE x \in S : \A y \in S : y <= x

\* The risks the loops have been through, as <<source, risk>> index pairs.
Processed == {Positions(all_risks)[i] : i \in 1..(pos - 1)}

RiskAt(p) == all_risks[p[1]].risks[p[2]]

\* The processed risks that name control k, identifiers compared through f.
Naming(k, f(_)) ==
    {p \in Processed :
        \E i \in 1..Len(RiskAt(p).mitigating_controls) :
            f(RiskAt(p).mitigating_controls[i]) = k}

\* The family and the number of an identifier of the shape FAMILY-NUMBER:
\* the hyphen positions h with letters before and digits after.
ShapeHyphens(c) ==
    {h \in 2..(Len(c) - 1) :
        /\ c[h] = "-"
        /\ \A k \in 1..(h - 1) : IsLetter(c[k])
        /\ \A k \in (h + 1)..Len(c) : IsDigit(c[k])}

RECURSIVE StripLeadingZeros(_)
StripLeadingZeros(d) ==
    IF Len(d) > 1 /\ d[1] = "0" THEN StripLeadingZeros(Tail(d)) ELSE d

\* What the normaliser is to return for c.
Canonical(c) ==
    IF ShapeHyphens(c) = {} THEN Upper(c)
    ELSE LET h == CHOOSE x \in ShapeHyphens(c) : TRUE
         IN  Upper(SubSeq(c, 1, h - 1)) \o <<"-">>
                 \o StripLeadingZeros(SubSeq(c, h + 1, Len(c)))

(***************************************************************************)
(* C1: once the risks are mapped, every control holds the maxima over the  *)
(* risks that name it under any spelling of its identifier: identifiers    *)
(* that differ only in letter case or in leading zeros of the number       *)
(* ("AC-02", "AC-2") count for the one canonical key.                      *)
(***************************************************************************)
C1_CanonicalKeyAggregation ==
    pc = "mapped" =>
        \A k \in DOMAIN controls :
            /\ controls[k].max_exploitation =
                    MaxOf({RiskAt(p).exploitation_score : p \in Naming(k, Canonical)})
            /\ controls[k].max_severity =
                    MaxOf({RiskAt(p).impact_score : p \in Naming(k, Canonical)})

(***************************************************************************)
(* C2: the normaliser returns, for every identifier of the shape           *)
(* FAMILY-NUMBER, the upper-cased family, a hyphen and the number without  *)
(* leading zeros, and only upper-cases any other identifier.               *)
(***************************************************************************)
C2_NormalizeByShape ==
    pc = "normalized" => normalized_control = Canonical(control)

(***************************************************************************)
(* C3: normalising a normalised identifier changes nothing.                *)
(***************************************************************************)
C3_NormalizeIdempotent ==
    pc = "renormalized" => renormalized = normalized_control

\* An all-zero number has been normalised twice.
C3_Witness ==
    /\ pc = "renormalized"
    /\ control = <<"a", "C", "-", "0", "0">>
    /\ renormalized = <<"A", "C", "-", "0">>

(***************************************************************************)
(* C4: at every point of the aggregation each control's max_exploitation   *)
(* (max_severity) is the maximum exploitation_score (impact_score) over    *)
(* the risks processed so far that name the control, 0 when none does, and *)
(* no step of the aggregation decreases either value.                      *)
(***************************************************************************)
C4_MaximaOverNamingRisks ==
    pc \in {"mapping", "mapped"} =>
        \A k \in DOMAIN controls :
            /\ controls[k].max_exploitation =
                    MaxOf({RiskAt(p).exploitation_score : p \in Naming(k, Upper)})
            /\ controls[k].max_severity =
                    MaxOf({RiskAt(p).impact_score : p \in Naming(k, Upper)})

C4_NeverDecrease ==
    (pc = "mapping" /\ pc' \in {"mapping", "mapped"}) =>
        \A k \in DOMAIN controls :
            /\ k \in DOMAIN controls'
            /\ controls'[k].max_exploitation >= controls[k].max_exploitation
            /\ controls'[k].max_severity >= controls[k].max_severity

PermsOf(n) == ListsOfSet(1..n)

Permute(s, perm) == [i \in 1..Len(s) |-> s[perm[i]]]

\* The lists of risks of the sources from the i-th on, each list in every
\* order.
RECURSIVE RiskOrdersFrom(_, _)
RiskOrdersFrom(risks, i) ==
    IF i > Len(risks) THEN {<<>>}
    ELSE {<<Permute(risks[i].risks, perm)>> \o rest :
            perm \in PermsOf(Len(risks[i].risks)), rest \in RiskOrdersFrom(risks, i + 1)}

\* The same sources holding the same risks, in every order of the sources
\* and of each source's risks.
Reorderings(risks) ==
    {[i \in 1..Len(risks) |-> [source_name |-> risks[sp[i]].source_name,
                               risks |-> ro[sp[i]]]] :
        sp \in PermsOf(Len(risks)), ro \in RiskOrdersFrom(risks, 1)}

C5_OrderIndependent ==
    pc = "mapped" =>
        \A other \in Reorderings(parsed_risks) :
            LET fresh == [k \in DOMAIN controls |-> NewControl(k)]
                result == MapAllRisks(fresh, other, attack_mappings)
            IN  \A k \in DOMAIN controls :
                    /\ result[k].max_exploitation = controls[k].max_exploitation
                    /\ result[k].max_severity = controls[k].max_severity

\* Two sources name the same control, the first with the lower exploitation
\* score and the higher impact score.
C5_Witness ==
    /\ pc = "mapped"
    /\ CA7 \in DOMAIN controls
    /\ Len(all_risks) = 2
    /\ \E i \in 1..Len(all_risks[1].risks), j \in 1..Len(all_risks[2].risks) :
        /\ <<1, i>> \in Naming(CA7, Upper)
        /\ <<2, j>> \in Naming(CA7, Upper)
        /\ all_risks[1].risks[i].exploitation_score = 50
        /\ all_risks[2].risks[j].exploitation_score = 90
    /\ controls[CA7].max_exploitation = 90
    /\ controls[CA7].max_severity = 90

(***************************************************************************)
(* C6: a finding associated with a control more than once (two items with  *)
(* the same cve, the control listed twice for a technique, the cve         *)
(* reaching the control through several techniques) has exactly one entry  *)
(* in the control's list of cves and is counted once in its total_risk.    *)
(***************************************************************************)
\* The cves of the items that reach control c.
AssociatedCves(c) ==
    {kev_data[i].cveID : i \in {n \in 1..Len(kev_data) : c \in ControlsOf(kev_data[n].cveID)}}

C6_OneEntryPerFinding ==
    pc = "summed" =>
        \A c \in DOMAIN control_to_risk :
            LET found == AssociatedCves(c)
                entry == control_to_risk[c]
            IN  /\ Range(entry.cves) = found
                /\ Len(entry.cves) = Cardinality(found)
                /\ entry.total_risk >= 10 * Cardinality(found)
                /\ entry.total_risk <= 15 * Cardinality(found)

(***************************************************************************)
(* C7: normalize_and_prioritize raises ValueError exactly when the weights *)
(* are more than 0.01 away from summing to 1.0; {0.4, 0.4, 0.2} is         *)
(* accepted, {0.5, 0.5, 0.5} is rejected, and a rejection leaves every     *)
(* control without a total_score.                                          *)
(***************************************************************************)
WeightSum == weights.exploitation + weights.severity + weights.applicability

C7_WeightValidation ==
    /\ pc = "prioritized" => (WeightSum >= 990 /\ WeightSum <= 1010)
    /\ pc = "ValueError" =>
        /\ (WeightSum < 990 \/ WeightSum > 1010)
        /\ DOMAIN total_score = {}
        /\ prioritized = None
    /\ pc \in {"prioritized", "ValueError"} =>
        /\ <<weights.exploitation, weights.severity, weights.applicability>>
                = <<400, 400, 200>> => pc = "prioritized"
        /\ <<weights.exploitation, weights.severity, weights.applicability>>
                = <<500, 500, 500>> => pc = "ValueError"

\* The weights {0.5, 0.5, 0.5} were rejected with controls to score.
C7_Witness ==
    /\ pc = "ValueError"
    /\ <<weights.exploitation, weights.severity, weights.applicability>> = <<500, 500, 500>>
    /\ DOMAIN controls # {}
    /\ \E k \in DOMAIN controls : controls[k].max_exploitation > 0

(***************************************************************************)
(* C8: in the list normalize_and_prioritize returns, no control has a      *)
(* lower total_score than the control after it.                            *)
(***************************************************************************)
C8_MonotonicRanking ==
    pc = "prioritized" =>
        \A i \in 1..(Len(prioritized) - 1) :
            total_score[prioritized[i]] >= total_score[prioritized[i + 1]]

\* The sort moved the last control of the mapping to the front.
C8_Witness ==
    /\ pc = "prioritized"
    /\ Len(prioritized) = 3
    /\ prioritized[1] = controls_order[3]
    /\ total_score[prioritized[1]] > total_score[prioritized[2]]
    /\ total_score[prioritized[2]] > total_score[prioritized[3]]

(***************************************************************************)
(* C9 as first stated: every total_score is the weighted sum of the        *)
(* control's max_exploitation, max_severity and applicability, rounded to  *)
(* 2 decimal places.                                                       *)
(***************************************************************************)
WeightedSum(k) ==
    weights.exploitation * controls[k].max_exploitation
        + weights.severity * controls[k].max_severity
        + weights.applicability * controls[k].applicability

C9_RoundedWeightedSum ==
    pc = "prioritized" =>
        \A k \in DOMAIN controls : total_score[k] = RoundTo2(WeightedSum(k))

(***************************************************************************)
(* C9 as amended: every total_score is the weighted sum of the control's   *)
(* max_exploitation, max_severity and applicability as stored, not         *)
(* rounded.                                                                *)
(***************************************************************************)
C9_ExactWeightedSum ==
    pc = "prioritized" =>
        /\ DOMAIN total_score = DOMAIN controls
        /\ \A k \in DOMAIN controls : total_score[k] = WeightedSum(k)

\* A total_score with more than 2 decimal places.
C9_Witness ==
    /\ pc = "prioritized"
    /\ \E k \in DOMAIN controls : total_score[k] % 100 # 0

(***************************************************************************)
(* C10: controls with equal total_score are returned in the order in which *)
(* the input mapping iterates over them.                                   *)
(***************************************************************************)
IndexIn(seq, x) == CHOOSE i \in 1..Len(seq) : seq[i] = x

C10_StableTieBreak ==
    pc = "prioritized" =>
        \A i \in 1..Len(prioritized), j \in 1..Len(prioritized) :
            (i < j /\ total_score[prioritized[i]] = total_score[prioritized[j]]) =>
                IndexIn(controls_order, prioritized[i]) < IndexIn(controls_order, prioritized[j])

\* Two controls tie above a third, in a mapping that is not in ascending
\* order of control id.
C10_Witness ==
    /\ pc = "prioritized"
    /\ controls_order = <<SI2, CA7, AC2>>
    /\ prioritized = <<CA7, AC2, SI2>>
    /\ total_score[CA7] = total_score[AC2]
    /\ total_score[AC2] > total_score[SI2]


(***************************************************************************)
(* Python's order on strings, by code point, for the characters of the     *)
(* model.                                                                  *)
(***************************************************************************)
CodePointOrder == <<NL, "-", "0", "1", "2", "7", "9", "A", "C", "I", "S", "a", "c", "i", "s">>

CodePointRank(ch) == CHOOSE i \in 1..Len(CodePointOrder) : CodePointOrder[i] = ch

RECURSIVE StrLess(_, _)
StrLess(a, b) ==
    IF b = <<>> THEN FALSE
    ELSE IF a = <<>> THEN TRUE
    ELSE IF Head(a) = Head(b) THEN StrLess(Tail(a), Tail(b))
    ELSE CodePointRank(Head(a)) < CodePointRank(Head(b))

(***************************************************************************)
(* C11: the list normalize_and_prioritize returns does not depend on the   *)
(* iteration order of the controls mapping: every reordering of the        *)
(* mapping's keys is prioritized into the same list, and controls with     *)
(* equal total_score come out by ascending control id.                     *)
(***************************************************************************)
C11_ReproducibleRanking ==
    pc = "prioritized" =>
        /\ \A order \in ListsOfSet(DOMAIN controls) :
            SortedDescending(order, total_score) = prioritized
        /\ \A i, j \in 1..Len(prioritized) :
            (i < j /\ total_score[prioritized[i]] = total_score[prioritized[j]])
                => StrLess(prioritized[i], prioritized[j])

(***************************************************************************)
(* C11 as amended: the list is fixed by the scores and by the iteration    *)
(* order of the mapping: a control comes before another exactly when its   *)
(* total_score is higher, or equal with the control earlier in the         *)
(* mapping; ties are not put in ascending order of the identifiers.        *)
(***************************************************************************)
C11_RankedByScoreThenMappingOrder ==
    pc = "prioritized" =>
        /\ Range(prioritized) = Range(controls_order)
        /\ \A i, j \in 1..Len(prioritized) :
            i < j =>
                \/ total_score[prioritized[i]] > total_score[prioritized[j]]
                \/ /\ total_score[prioritized[i]] = total_score[prioritized[j]]
                   /\ IndexIn(controls_order, prioritized[i])
                        < IndexIn(controls_order, prioritized[j])

\* Two controls with equal total_score are returned with the greater
\* identifier first.
C11_Witness ==
    /\ pc = "prioritized"
    /\ \E i, j \in 1..Len(prioritized) :
        /\ i < j
        /\ total_score[prioritized[i]] = total_score[prioritized[j]]
        /\ StrLess(prioritized[j], prioritized[i])

(***************************************************************************)
(* C12: normalize_and_prioritize returns the whole population: every       *)
(* control of the mapping it was given occurs exactly once in the list and *)
(* nothing else does; an empty mapping is prioritized into the empty list, *)
(* and with an empty mapping the call raises only for weights outside the  *)
(* tolerance.                                                              *)
(***************************************************************************)
C12_FullPopulation ==
    /\ pc = "prioritized" =>
        /\ Len(prioritized) = Cardinality(DOMAIN controls)
        /\ Range(prioritized) = DOMAIN controls
        /\ (DOMAIN controls = {} => prioritized = <<>>)
    /\ (pc = "ValueError" /\ DOMAIN controls = {}) => Abs(WeightSum - 1000) > 10

\* Three controls were given and three are returned.
C12_Witness ==
    /\ pc = "prioritized"
    /\ Cardinality(DOMAIN controls) = 3
    /\ Len(prioritized) = 3


C14_CatalogMissKept ==
    pc = "mapped" =>
        \A p \in Processed :
            \A i \in 1..Len(RiskAt(p).mitigating_controls) :
                LET id == Canonical(RiskAt(p).mitigating_controls[i])
                IN  id \notin Range(controls_order) =>
                        /\ id \in DOMAIN controls
                        /\ controls[id].title = id
                        /\ controls[id].family_title = <<"Unknown">>
                        /\ controls[id].max_exploitation >= RiskAt(p).exploitation_score
                        /\ controls[id].max_severity >= RiskAt(p).impact_score


(***************************************************************************)
(* The step of map_risks_to_controls over the risk at `pos`, when that     *)
(* risk's mitigating_controls list is empty.                               *)
(***************************************************************************)
EmptyListStep ==
    /\ pc = "mapping"
    /\ pos <= Len(Positions(all_risks))
    /\ pos' = pos + 1
    /\ RiskAt(Positions(all_risks)[pos]).mitigating_controls = <<>>

\* The risk at `pos` is of a source the ATT&CK enhancement applies to, and
\* its weakness class selects a technique the loaded mappings hold.
EnhancementApplies ==
    LET p == Positions(all_risks)[pos]
    IN  /\ all_risks[p[1]].source_name \in {"nvd_cve", "cisa_kev", "fallback"}
        /\ attack_mappings # <<>>
        /\ CweTechnique(RiskAt(p).cwe) \in DOMAIN attack_mappings

ScoreOrZero(risk, field) == IF field \in DOMAIN risk THEN risk[field] ELSE 0

(***************************************************************************)
(* C16: map_risks_to_controls does not raise on a risk without             *)
(* "exploitation_score" or "impact_score", and once the risks are mapped   *)
(* every control holds the maxima over the risks that name it, a missing   *)
(* score counting as 0.                                                    *)
(***************************************************************************)
C16_MissingScoreAsZero ==
    /\ pc # "KeyError"
    /\ pc = "mapped" =>
        \A k \in DOMAIN controls :
            /\ controls[k].max_exploitation =
                    MaxOf({ScoreOrZero(RiskAt(p), "exploitation_score") : p \in Naming(k, Upper)})
            /\ controls[k].max_severity =
                    MaxOf({ScoreOrZero(RiskAt(p), "impact_score") : p \in Naming(k, Upper)})

(***************************************************************************)
(* C17: no failure of the catalog (it cannot be downloaded, cannot be      *)
(* written, is not JSON, lacks a key or holds values of another type)      *)
(* leaves load_nist_controls, and with it map_risks_to_controls, as an     *)
(* exception.                                                              *)
(***************************************************************************)
C17_CatalogFailureNonFatal == pc \notin {failure.raises : failure \in CatalogFailures}


\* The files write_outputs is to write.
ReportFiles == {"controls.json", "top_50_controls.csv", "controls.html"}

\* config.json could not be read, or the weights main takes from it do not
\* sum to 1.0 within the tolerance.
ConfigurationError ==
    \/ "Failed to load config" \in log
    \/ /\ config # <<>>
       /\ LET w == ConfigWeights(config[1])
          IN  Abs(w.exploitation + w.severity + w.applicability - 1000) > 10

NothingParsed ==
    /\ pc \notin {"main", "load_config", "download", "attack_mappings", "parse"}
    /\ config # <<>>
    /\ \A i \in 1..Len(parsed_risks) : parsed_risks[i].risks = <<>>

(***************************************************************************)
(* C19: when parse_all_datasets yields no risk from any source, the run    *)
(* does not go on to aggregate, prioritize or write: it ends by main's     *)
(* handler logging its failure, with no report file written.               *)
(***************************************************************************)
C19_NothingParsedFatal ==
    NothingParsed =>
        /\ pc \notin {"mapping", "mapped", "prioritized"}
        /\ outputs = {}
        /\ pc = "exit" => "Processing failed" \in log

(***************************************************************************)
(* C20: the process ends with status 0 exactly when no stage failed with   *)
(* an exception, that is, when neither main's handler nor the handler of   *)
(* write_outputs logged one.                                               *)
(***************************************************************************)
C20_ExitStatusReflectsOutcome ==
    pc = "exit" =>
        (exit_status = 0 <=> log \cap {"Processing failed", "Failed to write outputs"} = {})

(***************************************************************************)
(* C27: map_risks_to_controls does not modify its input: at every point of *)
(* the call, and after it, every record of every source holds the          *)
(* mitigating_controls list that parse_all_datasets gave it.               *)
(***************************************************************************)
C27_InputNotModified ==
    pc \in {"mapping", "mapped", "prioritized"} =>
        \A s \in 1..Len(parsed_risks) :
            \A r \in 1..Len(parsed_risks[s].risks) :
                all_risks[s].risks[r].mitigating_controls
                    = parsed_risks[s].risks[r].mitigating_controls

(***************************************************************************)
(* download_nvd_api: the end of the period, its start, and the date ranges *)
(* that are fetched.  A datetime is a record of the day's proleptic        *)
(* Gregorian ordinal (date.toordinal()), the second of the day and the     *)
(* microsecond of the second.                                              *)
(***************************************************************************)
Datetime(d, s, us) == [days |-> d, seconds |-> s, microseconds |-> us]

\* datetime + timedelta(days=d, seconds=s, microseconds=us), d of either sign.
PlusTimedelta(dt, d, s, us) ==
    LET micro == dt.microseconds + us
        sec == dt.seconds + s + (micro \div 1000000)
    IN  Datetime(dt.days + d + (sec \div 86400), sec % 86400, micro % 1000000)

\* a <= b on datetimes.
NotAfter(a, b) ==
    \/ a.days < b.days
    \/ a.days = b.days /\ a.seconds < b.seconds
    \/ a.days = b.days /\ a.seconds = b.seconds /\ a.microseconds <= b.microseconds

\* min(a, b) on datetimes.
MinDatetime(a, b) == IF NotAfter(a, b) THEN a ELSE b

\* (a - b).days for a >= b: the whole days of the difference.
DaysBetween(a, b) ==
    IF NotAfter(Datetime(0, b.seconds, b.microseconds), Datetime(0, a.seconds, a.microseconds))
    THEN a.days - b.days
    ELSE a.days - b.days - 1

\* datetime.weekday(): Monday is 0 and Sunday is 6; ordinal 1 is a Monday.
Weekday(dt) == (dt.days + 6) % 7

\* .replace(hour=23, minute=59, second=59, microsecond=999999)
EndOfDay(dt) == Datetime(dt.days, 86399, 999999)

\* The year, month and day of an ordinal.
YearMonthDay(ordinal) ==
    LET z == ordinal + 305
        era == z \div 146097
        doe == z % 146097
        yoe == (doe - (doe \div 1460) + (doe \div 36524) - (doe \div 146096)) \div 365
        doy == doe - (365 * yoe + (yoe \div 4) - (yoe \div 100))
        mp == (5 * doy + 2) \div 153
        m == IF mp < 10 THEN mp + 3 ELSE mp - 9
    IN  [year |-> yoe + era * 400 + (IF m <= 2 THEN 1 ELSE 0),
         month |-> m,
         day |-> doy - ((153 * mp + 2) \div 5) + 1]

\* The ordinal of a year, month and day.
ToOrdinal(year, month, day) ==
    LET y == IF month <= 2 THEN year - 1 ELSE year
        era == y \div 400
        yoe == y % 400
        mp == IF month > 2 THEN month - 3 ELSE month + 9
        doy == ((153 * mp + 2) \div 5) + day - 1
    IN  era * 146097 + yoe * 365 + (yoe \div 4) - (yoe \div 100) + doy - 305

\* calendar.monthrange(year, month)[1]
DaysInMonth(year, month) ==
    LET next == IF month = 12 THEN ToOrdinal(year + 1, 1, 1) ELSE ToOrdinal(year, month + 1, 1)
    IN  next - ToOrdinal(year, month, 1)

\* dt - relativedelta(months=n): the same day of the month n months
\* earlier, or that month's last day when it has no such day.
MinusMonths(dt, n) ==
    LET ymd == YearMonthDay(dt.days)
        count == ymd.year * 12 + (ymd.month - 1) - n
        year == count \div 12
        month == (count % 12) + 1
        day == IF ymd.day < DaysInMonth(year, month) THEN ymd.day ELSE DaysInMonth(year, month)
    IN  Datetime(ToOrdinal(year, month, day), dt.seconds, dt.microseconds)

\* The readings of datetime.utcnow(): midnight and noon of the seven days
\* from Saturday 2026-03-28 to Friday 2026-04-03.
UtcNow == {Datetime(ToOrdinal(2026, 3, 28) + d, s, 0) : d \in 0..6, s \in {0, 43200}}

\* The arguments download_datasets passes on from config.json.
EndDateReferences == {"last_saturday", "today"}
TotalMonthsArgs == {0, 1, 2}
MaxDaysArgs == {0, 60}
DefaultDaysArgs == {7, 30, 90}

\* The call of download_nvd_api.
InitRanges ==
    /\ pc = "download_nvd_api"
    /\ end_date_reference \in EndDateReferences
    /\ total_months \in TotalMonthsArgs
    /\ max_days \in MaxDaysArgs
    /\ default_days \in DefaultDaysArgs
    /\ today = <<>>
    /\ end_date = <<>>
    /\ start_date = <<>>
    /\ current_date = <<>>
    /\ date_ranges = <<>>
    /\ NormIdle
    /\ RiskIdle
    /\ KevIdle
    /\ MainIdle
    /\ PrioIdle
    /\ FetchIdle
    /\ PoolIdle
    /\ FileIdle

\* days_since_saturday, as get_last_saturday computes it.
DaysSinceSaturday(dt) ==
    IF (Weekday(dt) + 1) % 7 = 0 THEN 7 ELSE (Weekday(dt) + 1) % 7

\* end_date = get_last_saturday()
GetLastSaturday ==
    /\ pc = "download_nvd_api"
    /\ end_date_reference = "last_saturday"
    /\ \E utcnow \in UtcNow :
        /\ today' = <<EndOfDay(utcnow)>>
        /\ end_date' = <<PlusTimedelta(EndOfDay(utcnow), -DaysSinceSaturday(EndOfDay(utcnow)), 0, 0)>>
    /\ pc' = "end_date"
    /\ UNCHANGED <<exceptRangeVars, end_date_reference, total_months,
                   max_days, default_days, start_date, current_date, date_ranges>>

\* end_date = datetime.utcnow().replace(...), for any other reference.
EndDateToday ==
    /\ pc = "download_nvd_api"
    /\ end_date_reference # "last_saturday"
    /\ \E utcnow \in UtcNow : end_date' = <<EndOfDay(utcnow)>>
    /\ pc' = "end_date"
    /\ UNCHANGED <<exceptRangeVars, end_date_reference, total_months,
                   max_days, default_days, today, start_date, current_date, date_ranges>>

Min2(a, b) == IF a < b THEN a ELSE b

\* total_months, start_date, max_days, default_days and current_date.
StartDate ==
    /\ pc = "end_date"
    /\ total_months' = Max2(1, Min2(total_months, 24))
    /\ start_date' = <<PlusTimedelta(MinusMonths(end_date[1], total_months'), 1, 0, 0)>>
    /\ max_days' = Max2(1, max_days)
    /\ default_days' = Max2(1, Min2(default_days, max_days'))
    /\ current_date' = start_date'
    /\ pc' = "ranges"
    /\ UNCHANGED <<exceptRangeVars, end_date_reference, today, end_date,
                   date_ranges>>

\* current_date + timedelta(days=n - 1, hours=23, minutes=59, seconds=59,
\* milliseconds=999)
IncrementEnd(dt, n) == PlusTimedelta(dt, n - 1, 86399, 999000)

\* period_end of the range that starts at current_date.
PeriodEnd(current, end, default, maxd) ==
    LET period_end == MinDatetime(IncrementEnd(current, default), end)
    IN  IF DaysBetween(period_end, current) > maxd
        THEN IncrementEnd(current, maxd)
        ELSE period_end

\* One pass of `while current_date <= end_date`, in a data directory that
\* holds no nvdcve file yet (or with force_refresh): the range is appended.
AppendRange ==
    /\ pc = "ranges"
    /\ NotAfter(current_date[1], end_date[1])
    /\ LET period_end == PeriodEnd(current_date[1], end_date[1], default_days, max_days)
       IN  /\ date_ranges' = Append(date_ranges, <<current_date[1], period_end>>)
           /\ current_date' = <<PlusTimedelta(period_end, 1, 0, 0)>>
    /\ UNCHANGED <<pc, exceptRangeVars, end_date_reference, total_months,
                   max_days, default_days, today, end_date, start_date>>

\* The loop is left: the ranges go to the executor.
RangesDone ==
    /\ pc = "ranges"
    /\ ~NotAfter(current_date[1], end_date[1])
    /\ pc' = "fetch"
    /\ UNCHANGED <<coreVars, extVars>>

NextRanges ==
    \/ GetLastSaturday
    \/ EndDateToday
    \/ StartDate
    \/ AppendRange
    \/ RangesDone

SpecRanges == InitRanges /\ [][NextRanges]_vars

\* "pubStartDate": start.strftime("%Y-%m-%dT%H:%M:%S.000Z"), as an instant.
PubStartDate(date_range) == Datetime(date_range[1].days, date_range[1].seconds, 0)

\* "pubEndDate": end.strftime("%Y-%m-%dT%H:%M:%S.999Z"), as an instant.
PubEndDate(date_range) == Datetime(date_range[2].days, date_range[2].seconds, 999000)

(***************************************************************************)
(* C22: whatever the current weekday, get_last_saturday returns a date     *)
(* that is a Saturday, lies strictly before today and at most 7 days       *)
(* before today.                                                           *)
(***************************************************************************)
C22_LastSaturday ==
    today # <<>> =>
        /\ Weekday(end_date[1]) = 5
        /\ end_date[1].days < today[1].days
        /\ today[1].days - end_date[1].days <= 7

(***************************************************************************)
(* C28: the date ranges requested partition the period from start_date to  *)
(* end_date: the first starts no later than start_date, each next one      *)
(* starts at the millisecond after the one before ended, so that they      *)
(* neither overlap nor leave an instant uncovered, and the last one ends   *)
(* at end_date.                                                            *)
(***************************************************************************)
C28_RangesPartitionPeriod ==
    pc = "fetch" =>
        /\ date_ranges # <<>>
        /\ NotAfter(PubStartDate(date_ranges[1]), start_date[1])
        /\ \A i \in 1..(Len(date_ranges) - 1) :
            PubStartDate(date_ranges[i + 1]) = PlusTimedelta(PubEndDate(date_ranges[i]), 0, 0, 1000)
        /\ PubEndDate(date_ranges[Len(date_ranges)])
               = Datetime(end_date[1].days, end_date[1].seconds, 999000)

(***************************************************************************)
(* fetch_nvd_data for one date range, and download_nvd_api collecting its  *)
(* result.  all_items is the length of the list; a response is the HTTP    *)
(* status with the number of items of the page and the totalResults field  *)
(* (<<>> when the body has none), or the exception requests.get raises.    *)
(***************************************************************************)
retries == 3
max_results == 10000
results_per_page == 2000

PageSizes == {0, 1000, 2000}
TotalResultsFields == {<<>>, <<0>>, <<1000>>, <<3000>>, <<12000>>}

\* The bodies of the responses raise_for_status() lets through.
Pages == [items : PageSizes, totalResults : TotalResultsFields]

\* The statuses raise_for_status() turns into requests.HTTPError.
ErrorStatuses == {400, 403, 404, 429, 500}

\* The exceptions of requests.get that are not HTTPError.
RequestExceptions == {"Timeout", "ConnectionError"}

\* data.get("totalResults", default)
TotalResultsOr(data, default) ==
    IF data.totalResults = <<>> THEN default ELSE data.totalResults[1]

\* The call of fetch_nvd_data by fetch_wrapper.
InitFetch ==
    /\ pc = "fetch_nvd_data"
    /\ FetchIdle
    /\ RangeIdle
    /\ PoolIdle
    /\ FileIdle
    /\ NormIdle
    /\ RiskIdle
    /\ KevIdle
    /\ MainIdle
    /\ PrioIdle

\* The cache file is valid and force_refresh is off: the items come from
\* the cache and go to the output file.
FetchFromCache ==
    /\ pc = "fetch_nvd_data"
    /\ \E data \in Pages :
        /\ all_items' = data.items
        /\ total_results' = TotalResultsOr(data, 0)
        /\ returned' = <<<<data.items, TotalResultsOr(data, 0)>>>>
    /\ written' = {"output_path"}
    /\ pc' = "returned"
    /\ UNCHANGED <<exceptFetchVars, start_index, attempt, downloaded_files>>

\* No valid cache: the `while True` loop is entered.
StartPaging ==
    /\ pc = "fetch_nvd_data"
    /\ pc' = "request"
    /\ UNCHANGED <<coreVars, extVars>>

\* `for attempt in range(retries)` has another attempt to give.
RetriesLeft(n) == n < retries

\* A mutant of PagingStops: only the total ends the paging.
PagingStopsAtTotal(len, total, items) == len >= total

\* len(all_items) >= total_results or not items or len(all_items) >= max_results
PagingStops(len, total, items) ==
    \/ len >= total
    \/ items = 0
    \/ len >= max_results

\* A request answered with a page: the items are taken, then either the
\* loop is left and both files are written, or the next page is up.
PageFetched ==
    /\ pc = "request"
    /\ RetriesLeft(attempt)
    /\ \E data \in Pages :
        LET len == all_items + data.items
            total == TotalResultsOr(data, total_results)
        IN  /\ all_items' = len
            /\ total_results' = total
            /\ IF PagingStops(len, total, data.items)
               THEN /\ written' = {"cache_path", "output_path"}
                    /\ returned' = <<<<len, total>>>>
                    /\ attempt' = attempt + 1
                    /\ pc' = "returned"
                    /\ UNCHANGED start_index
               ELSE /\ start_index' = start_index + results_per_page
                    /\ attempt' = 0
                    /\ UNCHANGED <<pc, written, returned>>
    /\ UNCHANGED <<exceptFetchVars, downloaded_files>>

\* HTTP 400 or 404: return 0, 0 at once.
PageRejected ==
    /\ pc = "request"
    /\ RetriesLeft(attempt)
    /\ \E status \in ErrorStatuses : status \in {400, 404}
    /\ attempt' = attempt + 1
    /\ returned' = <<<<0, 0>>>>
    /\ pc' = "gave_up"
    /\ UNCHANGED <<exceptFetchVars, all_items, total_results, start_index, written, downloaded_files>>

\* HTTP 429: sleep, then the next attempt.
PageRateLimited ==
    /\ pc = "request"
    /\ RetriesLeft(attempt)
    /\ \E status \in ErrorStatuses : status = 429
    /\ attempt' = attempt + 1
    /\ UNCHANGED <<pc, exceptFetchVars, all_items, total_results, start_index, written, returned,
                   downloaded_files>>

\* Any other HTTP error status: the HTTPError is raised again and leaves
\* fetch_nvd_data, fetch_wrapper and, through the iterator of executor.map,
\* download_nvd_api.
PageHttpError ==
    /\ pc = "request"
    /\ RetriesLeft(attempt)
    /\ \E status \in ErrorStatuses : status \notin {400, 404, 429}
    /\ attempt' = attempt + 1
    /\ pc' = "HTTPError"
    /\ UNCHANGED <<exceptFetchVars, all_items, total_results, start_index, written, returned,
                   downloaded_files>>

\* A timeout or a connection error: sleep, then the next attempt.
PageRequestException ==
    /\ pc = "request"
    /\ RetriesLeft(attempt)
    /\ \E exception \in RequestExceptions : TRUE
    /\ attempt' = attempt + 1
    /\ UNCHANGED <<pc, exceptFetchVars, all_items, total_results, start_index, written, returned,
                   downloaded_files>>

\* The else of the for loop: no attempt was answered with a page.
RetriesExhausted ==
    /\ pc = "request"
    /\ ~RetriesLeft(attempt)
    /\ returned' = <<<<0, 0>>>>
    /\ pc' = "gave_up"
    /\ UNCHANGED <<exceptFetchVars, all_items, total_results, start_index, attempt, written,
                   downloaded_files>>

\* download_nvd_api takes the result of the range: its path is kept when
\* cve_count > 0.
CollectResult ==
    /\ pc \in {"returned", "gave_up"}
    /\ downloaded_files' = IF returned[1][1] > 0
                           THEN Append(downloaded_files, "output_path")
                           ELSE downloaded_files
    /\ pc' = "collected"
    /\ UNCHANGED <<exceptFetchVars, all_items, total_results, start_index, attempt, written, returned>>

NextFetch ==
    \/ FetchFromCache
    \/ StartPaging
    \/ PageFetched
    \/ PageRejected
    \/ PageRateLimited
    \/ PageHttpError
    \/ PageRequestException
    \/ RetriesExhausted
    \/ CollectResult

\* The worker thread keeps running: every request ends within its timeout
\* and every sleep is finite.
SpecFetch == InitFetch /\ [][NextFetch]_vars /\ WF_vars(NextFetch)

\* The range has been dealt with, by a result or by an exception.
FetchOver == pc \in {"collected", "HTTPError"}

(***************************************************************************)
(* C21: a network failure while one date range is fetched never leaves     *)
(* download_nvd_api as an exception: the page is requested at most         *)
(* `retries` times, and a range that is given up returns (0, 0).           *)
(***************************************************************************)
C21_FailedRangeSkipped ==
    /\ attempt <= retries
    /\ pc # "HTTPError"
    /\ pc = "gave_up" => returned = <<<<0, 0>>>>

(***************************************************************************)
(* C29: the pagination of fetch_nvd_data ends whatever the responses are:  *)
(* a page is requested at most `retries` times, another page is asked for  *)
(* only when the page before brought items and left the collection below   *)
(* both totalResults and 10000, and a fetch that ends on a failure has     *)
(* written neither the cache file nor the output file.                     *)
(***************************************************************************)
C29_PaginationTerminates ==
    /\ [](/\ attempt <= retries
          /\ pc \in {"gave_up", "HTTPError"} => written = {})
    /\ [][start_index' # start_index =>
            /\ all_items' > all_items
            /\ all_items' < total_results'
            /\ all_items' < max_results]_vars
    /\ <>FetchOver

\* The second page was given up after `retries` requests.
C29_Witness ==
    /\ pc = "gave_up"
    /\ start_index > 0
    /\ attempt = retries
    /\ all_items > 0
    /\ written = {}

(***************************************************************************)
(* The thread pool of download_nvd_api: every date range is one call of    *)
(* fetch_wrapper, run by one of max_workers threads.  The clock counts     *)
(* seconds; a request is issued at the instant its thread reaches          *)
(* requests.get, and a thread that sleeps is one whose wake time lies      *)
(* ahead of the clock.                                                     *)
(***************************************************************************)
max_workers == 4

\* delay = 6 if api_key else 30
Delays == {6, 30}

\* How many date ranges the executor is given, and how many pages the API
\* holds for a range.
RangeCounts == {1, 2}
PageCounts == {1, 2}

\* A call of fetch_wrapper that the executor has not started yet.
Pending(page_count) ==
    [state |-> "pending", pages |-> page_count, attempt |-> 0, wake |-> 0, requested_at |-> <<>>]

\* with ThreadPoolExecutor(max_workers=4) as executor:
\*     results = executor.map(fetch_wrapper, date_ranges)
InitPool ==
    /\ pc = "executor"
    /\ delay \in Delays
    /\ now = 0
    /\ \E n \in RangeCounts : futures \in [1..n -> {Pending(k) : k \in PageCounts}]
    /\ RangeIdle
    /\ FetchIdle
    /\ FileIdle
    /\ NormIdle
    /\ RiskIdle
    /\ KevIdle
    /\ MainIdle
    /\ PrioIdle

\* The calls that hold a worker thread.
Running == {i \in DOMAIN futures : futures[i].state = "running"}

\* 2 ** n
RECURSIVE TwoToThe(_)
TwoToThe(n) == IF n = 0 THEN 1 ELSE 2 * TwoToThe(n - 1)

\* A free worker thread takes the first pending call.
StartFetch ==
    /\ pc = "executor"
    /\ Cardinality(Running) < max_workers
    /\ \E i \in DOMAIN futures :
        /\ futures[i].state = "pending"
        /\ \A j \in 1..(i - 1) : futures[j].state # "pending"
        /\ futures' = [futures EXCEPT ![i].state = "running", ![i].wake = now]
    /\ UNCHANGED <<pc, exceptPoolVars, delay, now>>

\* The thread of call i is at requests.get: it is running, awake, and its
\* for loop has an attempt left.
AtRequest(i) ==
    /\ futures[i].state = "running"
    /\ futures[i].wake <= now
    /\ RetriesLeft(futures[i].attempt)

\* A request answered with a page that is not the last one: start_index
\* moves on and the thread sleeps for `delay`.
RequestPage ==
    /\ pc = "executor"
    /\ \E i \in DOMAIN futures :
        /\ AtRequest(i)
        /\ futures[i].pages > 1
        /\ futures' = [futures EXCEPT ![i].requested_at = <<now>>,
                                      ![i].pages = @ - 1,
                                      ![i].attempt = 0,
                                      ![i].wake = now + delay]
    /\ UNCHANGED <<pc, exceptPoolVars, delay, now>>

\* A request answered with the last page: fetch_nvd_data returns.
RequestLastPage ==
    /\ pc = "executor"
    /\ \E i \in DOMAIN futures :
        /\ AtRequest(i)
        /\ futures[i].pages = 1
        /\ futures' = [futures EXCEPT ![i].requested_at = <<now>>,
                                      ![i].pages = 0,
                                      ![i].state = "returned"]
    /\ UNCHANGED <<pc, exceptPoolVars, delay, now>>

\* A request that fails with HTTP 429, a timeout or a connection error:
\* time.sleep(delay * (2 ** attempt)), then the next attempt.
RequestRetried ==
    /\ pc = "executor"
    /\ \E i \in DOMAIN futures :
        /\ AtRequest(i)
        /\ futures' = [futures EXCEPT ![i].requested_at = <<now>>,
                                      ![i].attempt = @ + 1,
                                      ![i].wake = now + delay * TwoToThe(futures[i].attempt)]
    /\ UNCHANGED <<pc, exceptPoolVars, delay, now>>

\* A request answered with HTTP 400 or 404 returns 0, 0; one answered with
\* another error status raises.
RequestRefused ==
    /\ pc = "executor"
    /\ \E i \in DOMAIN futures :
        /\ AtRequest(i)
        /\ \E outcome \in {"gave_up", "HTTPError"} :
            futures' = [futures EXCEPT ![i].requested_at = <<now>>,
                                       ![i].attempt = @ + 1,
                                       ![i].state = outcome]
    /\ UNCHANGED <<pc, exceptPoolVars, delay, now>>

\* The for loop of call i is exhausted: return 0, 0.
FetchGivenUp ==
    /\ pc = "executor"
    /\ \E i \in DOMAIN futures :
        /\ futures[i].state = "running"
        /\ futures[i].wake <= now
        /\ ~RetriesLeft(futures[i].attempt)
        /\ futures' = [futures EXCEPT ![i].state = "gave_up"]
    /\ UNCHANGED <<pc, exceptPoolVars, delay, now>>

\* The wake times that lie ahead of the clock.
WakesAhead == {futures[i].wake : i \in {j \in Running : futures[j].wake > now}}

\* Time passes until the next sleeping thread wakes.
Tick ==
    /\ pc = "executor"
    /\ WakesAhead # {}
    /\ now' = CHOOSE t \in WakesAhead : \A u \in WakesAhead : t <= u
    /\ UNCHANGED <<pc, exceptPoolVars, delay, futures>>

\* Every call has ended: the with block is left.
ExecutorShutdown ==
    /\ pc = "executor"
    /\ \A i \in DOMAIN futures : futures[i].state \in {"returned", "gave_up", "HTTPError"}
    /\ pc' = "shutdown"
    /\ UNCHANGED <<coreVars, extVars>>

NextPool ==
    \/ StartFetch
    \/ RequestPage
    \/ RequestLastPage
    \/ RequestRetried
    \/ RequestRefused
    \/ FetchGivenUp
    \/ Tick
    \/ ExecutorShutdown

SpecPool == InitPool /\ [][NextPool]_vars

(***************************************************************************)
(* C26: the requests to the NVD API are paced across the worker threads:   *)
(* whatever the interleaving, the latest requests of two different fetches *)
(* were issued at least `delay` seconds apart.                             *)
(***************************************************************************)
C26_RequestsPaced ==
    \A i, j \in DOMAIN futures :
        (i # j /\ futures[i].requested_at # <<>> /\ futures[j].requested_at # <<>>) =>
            Abs(futures[i].requested_at[1] - futures[j].requested_at[1]) >= delay

(***************************************************************************)
(* parse_config.download_data_file and data_ingestion.download_data.  A    *)
(* source of config.json is a record of its output name, its enabled key   *)
(* (<<>> when the source has none) and whether it has a name and a url.    *)
(***************************************************************************)
max_retries == 3

OutputFilename == "cisa_kev.json"

ConfigSource == [output : {OutputFilename, "nvd.json"},
                 enabled : {<<>>, <<TRUE>>, <<FALSE>>},
                 named : BOOLEAN]

\* The lists of sources config.json may hold.
ConfigSourceLists == {<<>>} \cup {<<a>> : a \in ConfigSource}
                         \cup {<<a, b>> : a, b \in ConfigSource}

\* source.get('enabled', default)
EnabledOr(source, default) == IF source.enabled = <<>> THEN default ELSE source.enabled[1]

\* s.get('output') == output_filename and s.get('enabled', True)
IsSelected(source) == source.output = OutputFilename /\ EnabledOr(source, TRUE)

\* [s for s in config.get('sources', []) if s.get('output') == ... ]
RECURSIVE SelectSources(_)
SelectSources(list) ==
    IF list = <<>> THEN <<>>
    ELSE (IF IsSelected(Head(list)) THEN <<Head(list)>> ELSE <<>>)
             \o SelectSources(Tail(list))

\* What requests.get and the validation of the file may do for one source.
FetchOutcomes == {"ok", "invalid_json", "request_error", "io_error"}

\* The body of `for source in sources` in download_data, on the state
\* [success, data_file] of the loop.
DownloadOne(source, outcome, state) ==
    IF ~EnabledOr(source, FALSE) THEN state
    ELSE IF ~source.named THEN [state EXCEPT !.success = FALSE]
    ELSE IF outcome = "ok" THEN [state EXCEPT !.data_file = "downloaded"]
    ELSE IF outcome = "invalid_json" THEN [success |-> FALSE, data_file |-> "absent"]
    ELSE [state EXCEPT !.success = FALSE]

\* download_data(sources) from source i on.
RECURSIVE DownloadFrom(_, _, _, _)
DownloadFrom(list, outcomes, i, state) ==
    IF i > Len(list) THEN state
    ELSE DownloadFrom(list, outcomes, i + 1, DownloadOne(list[i], outcomes[i], state))

\* download_data(sources): success starts True.
DownloadData(list, outcomes, file) ==
    DownloadFrom(list, outcomes, 1, [success |-> TRUE, data_file |-> file])

\* The call of download_data_file(output_filename), config.json as it is.
InitFile ==
    /\ pc = "download_data_file"
    /\ config_sources \in ConfigSourceLists
    /\ sources = <<>>
    /\ download_attempt = 1
    /\ data_file = "absent"
    /\ download_returned = <<>>
    /\ RangeIdle
    /\ FetchIdle
    /\ PoolIdle
    /\ NormIdle
    /\ RiskIdle
    /\ KevIdle
    /\ MainIdle
    /\ PrioIdle

\* config.json is missing, unreadable or not JSON: return False.
ConfigUnreadable ==
    /\ pc = "download_data_file"
    /\ download_returned' = <<FALSE>>
    /\ pc' = "no_config"
    /\ UNCHANGED <<exceptFileVars, config_sources, sources, download_attempt, data_file>>

\* The sources are selected; with none selected, return False.
SelectEnabledSources ==
    /\ pc = "download_data_file"
    /\ sources' = SelectSources(config_sources)
    /\ IF sources' = <<>>
       THEN /\ download_returned' = <<FALSE>>
            /\ pc' = "no_source"
       ELSE /\ pc' = "attempts"
            /\ UNCHANGED download_returned
    /\ UNCHANGED <<exceptFileVars, config_sources, download_attempt, data_file>>

\* One pass of `for attempt in range(1, max_retries + 1)`: download_data
\* is called; True is returned when it succeeded, False after the last
\* attempt, and otherwise the next attempt follows the sleep.
DownloadAttempt ==
    /\ pc = "attempts"
    /\ download_attempt <= max_retries
    /\ \E outcomes \in [1..Len(sources) -> FetchOutcomes] :
        LET done == DownloadData(sources, outcomes, data_file)
        IN  /\ data_file' = done.data_file
            /\ IF done.success
               THEN /\ download_returned' = <<TRUE>>
                    /\ pc' = "returned"
                    /\ UNCHANGED download_attempt
               ELSE IF download_attempt < max_retries
               THEN /\ download_attempt' = download_attempt + 1
                    /\ UNCHANGED <<pc, download_returned>>
               ELSE /\ download_returned' = <<FALSE>>
                    /\ pc' = "returned"
                    /\ UNCHANGED download_attempt
    /\ UNCHANGED <<exceptFileVars, config_sources, sources>>

\* os.makedirs fails in download_data: it returns False before any source.
DataDirFailed ==
    /\ pc = "attempts"
    /\ download_attempt <= max_retries
    /\ IF download_attempt < max_retries
       THEN /\ download_attempt' = download_attempt + 1
            /\ UNCHANGED <<pc, download_returned>>
       ELSE /\ download_returned' = <<FALSE>>
            /\ pc' = "returned"
            /\ UNCHANGED download_attempt
    /\ UNCHANGED <<exceptFileVars, config_sources, sources, data_file>>

NextFile ==
    \/ ConfigUnreadable
    \/ SelectEnabledSources
    \/ DownloadAttempt
    \/ DataDirFailed

SpecFile == InitFile /\ [][NextFile]_vars

(***************************************************************************)
(* C23: download_data_file makes at most 3 attempts, returns True only if  *)
(* one of them actually downloaded the requested file, so never when       *)
(* download_data skipped the selected source without fetching it, and      *)
(* returns False from the attempts only after the third has failed.        *)
(***************************************************************************)
C23_TrueOnlyWhenDownloaded ==
    /\ download_attempt <= max_retries
    /\ download_returned = <<TRUE>> => data_file = "downloaded"
    /\ (pc = "returned" /\ download_returned = <<FALSE>>) => download_attempt = max_retries

(***************************************************************************)
(* env/risk_prioritizer.prioritize_controls and the exporters.  A mapping  *)
(* object of the AWS file is a record of its attack_object_id ("" when it  *)
(* has none), status and score_value; a NIST control is its id.  A         *)
(* mitigation_coverage is the fraction [num, den] of the division that     *)
(* computes it.                                                            *)
(***************************************************************************)
score_values == [significant |-> 3, partial |-> 2, minimal |-> 1]

\* The score_value strings of the inputs, and .lower() on them.
ScoreValueStrings == {"significant", "Partial", "minimal", "unknown"}
LowerScore(score_value) == IF score_value = "Partial" THEN "partial" ELSE score_value

AwsMappings == [attack_object_id : {"T1059", "T1190", ""},
                status : {"complete", "non_mappable"},
                score_value : ScoreValueStrings]

\* aws_data['mapping_objects']: up to two mapping objects.
AwsDataInputs == {<<>>} \cup {<<a>> : a \in AwsMappings} \cup {<<a, b>> : a, b \in AwsMappings}

NistControlLists == {<<AC2>>, <<CA7>>, <<AC2, SI2>>, <<CA7, AC2>>}

\* attack_to_nist: one mapping, or one for each of two techniques.
AttackToNistInputs ==
    {<<[attack_id |-> "T1059", nist_controls |-> c]>> : c \in NistControlLists}
        \cup {<<[attack_id |-> "T1059", nist_controls |-> c],
                [attack_id |-> "T1190", nist_controls |-> d]>> : c, d \in NistControlLists}

\* technique_mitigations[tech]: the scores of the complete mappings of the
\* technique whose score_value is one of score_values.
RECURSIVE TechniqueMitigations(_, _)
TechniqueMitigations(mapping_objects, tech) ==
    IF mapping_objects = <<>> THEN <<>>
    ELSE LET mapping == Head(mapping_objects)
             score == LowerScore(mapping.score_value)
         IN  (IF /\ mapping.status = "complete"
                 /\ mapping.attack_object_id # ""
                 /\ mapping.attack_object_id = tech
                 /\ score \in DOMAIN score_values
              THEN <<score_values[score]>>
              ELSE <<>>) \o TechniqueMitigations(Tail(mapping_objects), tech)

\* max(scores)
RECURSIVE MaxScore(_)
MaxScore(scores) ==
    IF Len(scores) = 1 THEN scores[1] ELSE Max2(scores[1], MaxScore(Tail(scores)))

\* A mutant of TechniqueMitigationLevel: the first score of the technique
\* in place of the highest.
TechniqueMitigationLevelFirst(mapping_objects, tech) ==
    LET scores == TechniqueMitigations(mapping_objects, tech)
    IN  IF scores = <<>> THEN 0 ELSE scores[1]

\* technique_mitigation_level.get(tech, 0)
TechniqueMitigationLevel(mapping_objects, tech) ==
    LET scores == TechniqueMitigations(mapping_objects, tech)
    IN  IF scores = <<>> THEN 0 ELSE MaxScore(scores)

\* The (control id, attack_id) pairs in the order of the two nested loops.
RECURSIVE ControlTechniquePairs(_)
ControlTechniquePairs(mappings) ==
    IF mappings = <<>> THEN <<>>
    ELSE [i \in 1..Len(Head(mappings).nist_controls) |->
              <<Head(mappings).nist_controls[i], Head(mappings).attack_id>>]
             \o ControlTechniquePairs(Tail(mappings))

\* control_to_techniques[control_id]
RECURSIVE TechniquesIn(_, _)
TechniquesIn(pairs, control_id) ==
    IF pairs = <<>> THEN <<>>
    ELSE (IF Head(pairs)[1] = control_id THEN <<Head(pairs)[2]>> ELSE <<>>)
             \o TechniquesIn(Tail(pairs), control_id)

ControlToTechniques(mappings, control_id) ==
    TechniquesIn(ControlTechniquePairs(mappings), control_id)

\* control_risk_levels.keys()
ControlIds(mappings) ==
    {ControlTechniquePairs(mappings)[i][1] : i \in 1..Len(ControlTechniquePairs(mappings))}

\* sorted(control_risk_levels.keys()): the ids in ascending string order.
RECURSIVE SortedIds(_)
SortedIds(ids) ==
    IF ids = {} THEN <<>>
    ELSE LET first == CHOOSE a \in ids : \A b \in ids \ {a} : StrLess(a, b)
         IN  <<first>> \o SortedIds(ids \ {first})

\* min(technique_mitigation_level.get(tech, 0) for tech in techniques)
MinMitigation(mapping_objects, techniques) ==
    LET levels == {TechniqueMitigationLevel(mapping_objects, techniques[i]) :
                       i \in 1..Len(techniques)}
    IN  CHOOSE x \in levels : \A y \in levels : x <= y

\* sum(1 for tech in techniques if technique_mitigation_level.get(tech, 0) > 0)
MitigatedCount(mapping_objects, techniques) ==
    Cardinality({i \in 1..Len(techniques) :
                    TechniqueMitigationLevel(mapping_objects, techniques[i]) > 0})

\* [... for m in aws_data['mapping_objects'] if m.get('attack_object_id') == tech]
Mitigations(mapping_objects, tech) ==
    LET OfTech(m) == m.attack_object_id = tech
        found == SelectSeq(mapping_objects, OfTech)
    IN  [i \in 1..Len(found) |-> [score_value |-> found[i].score_value]]

\* The dictionary appended to prioritized_controls for one control.
ControlEntry(mapping_objects, mappings, control_id) ==
    LET techniques == ControlToTechniques(mappings, control_id)
    IN  [id |-> control_id,
         risk_level |-> MinMitigation(mapping_objects, techniques),
         mitigation_coverage |-> [num |-> MitigatedCount(mapping_objects, techniques),
                                  den |-> Len(techniques)],
         technique_count |-> Len(techniques),
         associated_techniques |->
             [i \in 1..Len(techniques) |->
                 [technique_id |-> techniques[i],
                  mitigations |-> Mitigations(mapping_objects, techniques[i])]]]

\* The files env/main has loaded.
InitPrio ==
    /\ pc = "prioritize_controls"
    /\ aws_data \in AwsDataInputs
    /\ attack_to_nist \in AttackToNistInputs
    /\ aws_controls = <<>>
    /\ csv_rows = <<>>
    /\ json_rows = <<>>
    /\ html_rows = <<>>
    /\ RangeIdle
    /\ FetchIdle
    /\ PoolIdle
    /\ FileIdle
    /\ NormIdle
    /\ RiskIdle
    /\ KevIdle
    /\ MainIdle

\* prioritized_controls = prioritize_controls(aws_data, attack_to_nist)
PrioritizeControls ==
    /\ pc = "prioritize_controls"
    /\ LET ids == SortedIds(ControlIds(attack_to_nist))
       IN  aws_controls' = [i \in 1..Len(ids) |-> ControlEntry(aws_data, attack_to_nist, ids[i])]
    /\ pc' = "export_to_csv"
    /\ UNCHANGED <<exceptPrioVars, aws_data, attack_to_nist, csv_rows, json_rows, html_rows>>

\* a sorts before b under the key
\* (-risk_level, -mitigation_coverage, -technique_count, id).
ExportBefore(a, b) ==
    LET ca == a.mitigation_coverage.num * b.mitigation_coverage.den
        cb == b.mitigation_coverage.num * a.mitigation_coverage.den
    IN  \/ a.risk_level > b.risk_level
        \/ a.risk_level = b.risk_level /\ ca > cb
        \/ a.risk_level = b.risk_level /\ ca = cb /\ a.technique_count > b.technique_count
        \/ /\ a.risk_level = b.risk_level
           /\ ca = cb
           /\ a.technique_count = b.technique_count
           /\ StrLess(a.id, b.id)

\* sorted(data, key=...): the controls have distinct ids, so no two keys
\* are equal.
RECURSIVE SortedData(_)
SortedData(data) ==
    IF data = {} THEN <<>>
    ELSE LET first == CHOOSE a \in data : \A b \in data \ {a} : ExportBefore(a, b)
         IN  <<first>> \o SortedData(data \ {first})

\* The number a coverage cell shows before the slash: the techniques with
\* a non-empty mitigations list.
ShownMitigated(entry) ==
    Cardinality({i \in 1..Len(entry.associated_techniques) :
                    entry.associated_techniques[i].mitigations # <<>>})

\* f"{mitigation_coverage*100:.1f}": the percentage in tenths.
PercentTenths(coverage) == (2000 * coverage.num + coverage.den) \div (2 * coverage.den)

\* The row of one control, in the CSV file and in the summary table.
ExportRow(entry) ==
    [id |-> entry.id,
     risk_level |-> entry.risk_level,
     percent |-> PercentTenths(entry.mitigation_coverage),
     mitigated |-> ShownMitigated(entry),
     technique_count |-> entry.technique_count]

\* The rows of data in the exporters' order.
ExportRows(data) ==
    LET sorted_data == SortedData({data[i] : i \in 1..Len(data)})
    IN  [i \in 1..Len(sorted_data) |-> ExportRow(sorted_data[i])]

\* export_to_csv(prioritized_controls, ...)
ExportToCsv ==
    /\ pc = "export_to_csv"
    /\ csv_rows' = ExportRows(aws_controls)
    /\ pc' = "export_to_json"
    /\ UNCHANGED <<exceptPrioVars, aws_data, attack_to_nist, aws_controls, json_rows, html_rows>>

\* export_to_json(prioritized_controls, ...)
ExportToJson ==
    /\ pc = "export_to_json"
    /\ json_rows' = aws_controls
    /\ pc' = "export_to_html"
    /\ UNCHANGED <<exceptPrioVars, aws_data, attack_to_nist, aws_controls, csv_rows, html_rows>>

\* export_to_html(prioritized_controls, ...), run where the AWS file is
\* found under src/env.
ExportToHtml ==
    /\ pc = "export_to_html"
    /\ html_rows' = ExportRows(aws_controls)
    /\ pc' = "exported"
    /\ UNCHANGED <<exceptPrioVars, aws_data, attack_to_nist, aws_controls, csv_rows, json_rows>>

\* export_to_html run from another directory: open() of the relative path
\* fails before any page is written.
ExportToHtmlFailed ==
    /\ pc = "export_to_html"
    /\ pc' = "FileNotFoundError"
    /\ UNCHANGED <<coreVars, extVars>>

NextPrio ==
    \/ PrioritizeControls
    \/ ExportToCsv
    \/ ExportToJson
    \/ ExportToHtml
    \/ ExportToHtmlFailed

SpecPrio == InitPrio /\ [][NextPrio]_vars

\* prioritize_controls has returned.
Prioritized ==
    pc \in {"export_to_csv", "export_to_json", "export_to_html", "exported", "FileNotFoundError"}

(***************************************************************************)
(* C24: the list prioritize_controls returns is sorted by risk level: its  *)
(* risk levels never increase from one control to the next, or they never  *)
(* decrease.                                                               *)
(***************************************************************************)
C24_SortedByRiskLevel ==
    Prioritized =>
        \/ \A i \in 1..(Len(aws_controls) - 1) :
               aws_controls[i].risk_level >= aws_controls[i + 1].risk_level
        \/ \A i \in 1..(Len(aws_controls) - 1) :
               aws_controls[i].risk_level <= aws_controls[i + 1].risk_level

\* The score of one AWS mapping: significant 3, partial 2, minimal 1.
ScoreOf(mapping) ==
    IF mapping.score_value = "significant" THEN 3
    ELSE IF mapping.score_value \in {"partial", "Partial"} THEN 2
    ELSE IF mapping.score_value = "minimal" THEN 1
    ELSE 0

\* The highest score among the complete AWS mappings of a technique, 0
\* when it has none.
HighestCompleteScore(tech) ==
    MaxOf({ScoreOf(aws_data[k]) :
               k \in {n \in 1..Len(aws_data) : /\ aws_data[n].attack_object_id = tech
                                               /\ aws_data[n].status = "complete"}})

\* The techniques that attack_to_nist associates with a control.
AssociatedTechniques(control_id) ==
    {attack_to_nist[k].attack_id :
         k \in {n \in 1..Len(attack_to_nist) :
                   \E c \in 1..Len(attack_to_nist[n].nist_controls) :
                       attack_to_nist[n].nist_controls[c] = control_id}}

(***************************************************************************)
(* C25: the risk_level of every control returned is the minimum, over the  *)
(* techniques associated with it, of the technique's mitigation level, the *)
(* highest score among the technique's complete AWS mappings and 0 when it *)
(* has none; it lies in 0..3.                                              *)
(***************************************************************************)
C25_RiskLevelMinOfHighest ==
    Prioritized =>
        \A i \in 1..Len(aws_controls) :
            LET levels == {HighestCompleteScore(t) : t \in AssociatedTechniques(aws_controls[i].id)}
            IN  /\ aws_controls[i].risk_level \in levels
                /\ \A level \in levels : aws_controls[i].risk_level <= level
                /\ aws_controls[i].risk_level \in 0..3

\* The only technique of one control has two complete mappings, scored
\* minimal and then significant, and the control's level is 3; a control of
\* two techniques, one of them without a mapping, has level 0.
C25_Witness ==
    /\ Prioritized
    /\ Len(aws_data) = 2
    /\ \E i \in 1..Len(aws_controls) :
        /\ aws_controls[i].technique_count = 1
        /\ aws_controls[i].risk_level = 3
        /\ TechniqueMitigations(aws_data, aws_controls[i].associated_techniques[1].technique_id)
               = <<1, 3>>
    /\ \E i \in 1..Len(aws_controls) :
        /\ aws_controls[i].technique_count = 2
        /\ aws_controls[i].risk_level = 0

(***************************************************************************)
(* C30: the two coverage figures exported for a control agree: in the CSV  *)
(* file and in the HTML summary, the number of techniques shown as         *)
(* mitigated equals mitigation_coverage * technique_count.                 *)
(***************************************************************************)
C30_CoverageFiguresAgree ==
    \A i \in 1..Len(aws_controls) :
        LET coverage == aws_controls[i].mitigation_coverage
            Agrees(row) ==
                row.id = aws_controls[i].id =>
                    row.mitigated * coverage.den = coverage.num * row.technique_count
        IN  /\ \A k \in 1..Len(csv_rows) : Agrees(csv_rows[k])
            /\ \A k \in 1..Len(html_rows) : Agrees(html_rows[k])

====
